---- MODULE Spec2Model ----
(***************************************************************************)
(* A model of dirscribe's summarisation engine: UnifiedClient::chat (the   *)
(* retry loop around one provider request), parse_response, check_summary  *)
(* and get_summaries (the semaphore-bounded fan-out / in-order fan-in).    *)
(*                                                                         *)
(* A string is a sequence of characters; a character is a one-token        *)
(* string.  The multi-character literals the code compares against         *)
(* ("[DIRSCRIBE]", "'''", "</think>", ...) are single tokens.              *)
(***************************************************************************)
EXTENDS Integers, Sequences, FiniteSets, TLC

VARIABLES
    env,            \* the process environment read by get_summaries
    diff_only,      \* get_summaries' diff_only argument
    valid_files,    \* get_summaries' valid_files argument
    main_pc,        \* position of get_summaries: "start", "spawning", "joining", "returned"
    ret,            \* what get_summaries returned
    provider,       \* the Provider of the UnifiedClient
    max_concurrent_requests,
    permits,        \* permits available in the semaphore
    handles,        \* number of handles pushed (tasks spawned)
    results,        \* the results vector of the fan-in loop
    pc,             \* per task: "none", "spawned", "awaiting", "sleeping", "finished", "panicked"
    retries,        \* per task: chat's retries
    backoff_ms,     \* per task: chat's backoff_ms
    holds,          \* per task: the task owns its OwnedSemaphorePermit
    output,         \* per task: the value the spawned future resolved to
    completed,      \* the tasks that terminated, in the order they did (history)
    obs,            \* observer of the chat call of task 1 (history, SpecChat only)
    chk,            \* the arguments of the check_summary call under test (SpecCheck only)
    apply,          \* process_directory's apply argument
    fs,             \* the file system: per file of valid_files, its content
    applied,        \* iterations made by process_directory's apply loop
    wobs,           \* the last write_summary_to_file call (history)
    emitted,        \* what process_directory has returned
    walk,           \* process_directory's walk: its filters and its position
    git             \* the git arguments and where the run stands with them (SpecGit only)

vars == << env, diff_only, valid_files, main_pc, ret, provider,
           max_concurrent_requests, permits, handles, results,
           pc, retries, backoff_ms, holds, output, completed, obs,
           chk, apply, fs, applied, wobs, emitted, walk, git >>

\* What get_summaries and its tasks never touch
aux == << chk, apply, fs, applied, wobs, emitted, walk, git >>

-----------------------------------------------------------------------------
(* Bounds of the model *)

NumFiles == 2

-----------------------------------------------------------------------------
(* Program constants, src/src/summary.rs:13-17 *)

DEFAULT_CONCURRENT_REQUESTS == 10
MAX_RETRIES == 6
INITIAL_BACKOFF_MS == 1000

-----------------------------------------------------------------------------
(* Strings *)

NL == "\n"
SP == " "
None == "None"

IsWhitespace(c) == c \in {SP, NL}

RECURSIVE TrimStart(_)
TrimStart(s) ==
    IF s = << >> THEN << >>
    ELSE IF IsWhitespace(Head(s)) THEN TrimStart(Tail(s))
    ELSE s

RECURSIVE TrimEnd(_)
TrimEnd(s) ==
    IF s = << >> THEN << >>
    ELSE IF IsWhitespace(s[Len(s)]) THEN TrimEnd(SubSeq(s, 1, Len(s) - 1))
    ELSE s

\* str::trim
Trim(s) == TrimEnd(TrimStart(s))

\* str::contains for a one-token pattern
Contains(s, tok) == \E i \in 1..Len(s) : s[i] = tok

\* str::split(sep) for a one-token separator, collected into a Vec
RECURSIVE Split(_, _)
Split(s, sep) ==
    IF s = << >> THEN << << >> >>
    ELSE LET rest == Split(Tail(s), sep) IN
         IF Head(s) = sep THEN << << >> >> \o rest
         ELSE << << Head(s) >> \o Head(rest) >> \o Tail(rest)

-----------------------------------------------------------------------------
(* The comment-contract registry *)

\* create_comment_map: extension -> comment styles (the entries the model uses)
create_comment_map ==
    ( << "py" >>   :> << << << "'''" >>, << "'''" >> >>,
                         << << "\"\"\"" >>, << "\"\"\"" >> >>,
                         << << "#" >>, << NL >> >> >> ) @@
    ( << "rs" >>   :> << << << "/*" >>, << "*/" >> >>,
                         << << "//" >>, << NL >> >> >> ) @@
    ( << "yaml" >> :> << << << "#" >>, << NL >> >> >> )

\* The map as chat and check_summary receive it, HashMap<&str, (&str, &str)>:
\* one (start, end) pair per extension, the first style of the registry entry.
suffix_map == [e \in DOMAIN create_comment_map |-> create_comment_map[e][1]]

\* HashMap::get: Has(map, key) when it is Some, and then Get(map, key) is the value
Has(map, key) == key \in DOMAIN map
Get(map, key) == map[key]

\* Path::extension().and_then(to_str).unwrap_or("") of a path given as the
\* characters of its file name
Extension(file_path) ==
    IF ~Contains(file_path, ".") \/ Head(file_path) = "." THEN << >>
    ELSE LET parts == Split(file_path, ".") IN parts[Len(parts)]

DIRSCRIBE_OPEN == "[DIRSCRIBE]"
DIRSCRIBE_CLOSE == "[/DIRSCRIBE]"
SINGLE_LINE == << "single line" >>

\* A bug to test the claims against: with no registry entry, any text that
\* has the two sentinel lines in place is accepted
check_summary_Heuristic(file_path, s, map) ==
    LET lines == Split(Trim(s), NL)
        n == Len(lines)
    IN  IF n < 4 THEN FALSE
        ELSE IF ~Has(map, Extension(file_path))
        THEN Contains(lines[2], DIRSCRIBE_OPEN) /\ Contains(lines[n - 1], DIRSCRIBE_CLOSE)
        ELSE LET entry == Get(map, Extension(file_path)) IN
             /\ Trim(lines[1]) = entry[1]
             /\ Trim(lines[2]) = << DIRSCRIBE_OPEN >>
             /\ Trim(lines[n - 1]) = << DIRSCRIBE_CLOSE >>
             /\ Trim(lines[n]) = entry[2]

\* A bug to test the claims against: the last line is not looked at
check_summary_LastLineUnchecked(file_path, s, map) ==
    IF ~Has(map, Extension(file_path)) THEN FALSE
    ELSE LET entry == Get(map, Extension(file_path))
             lines == Split(Trim(s), NL)
             n == Len(lines)
         IN  IF n < 4 THEN FALSE
             ELSE IF entry[2] # SINGLE_LINE
             THEN /\ Trim(lines[1]) = entry[1]
                  /\ Trim(lines[2]) = << DIRSCRIBE_OPEN >>
                  /\ Trim(lines[n - 1]) = << DIRSCRIBE_CLOSE >>
             ELSE /\ Trim(lines[1]) = entry[1]
                  /\ Trim(lines[2]) = entry[1] \o << SP, DIRSCRIBE_OPEN >>
                  /\ Trim(lines[n - 1]) = entry[1] \o << SP, DIRSCRIBE_CLOSE >>

\* A bug to test the claims against: a line-mode contract is checked as if
\* its sentinel lines carried no prefix
check_summary_BareSentinels(file_path, s, map) ==
    IF ~Has(map, Extension(file_path)) THEN FALSE
    ELSE LET entry == Get(map, Extension(file_path))
             lines == Split(Trim(s), NL)
             n == Len(lines)
         IN  IF n < 4 THEN FALSE
             ELSE /\ Trim(lines[1]) = entry[1]
                  /\ Trim(lines[2]) = << DIRSCRIBE_OPEN >>
                  /\ Trim(lines[n - 1]) = << DIRSCRIBE_CLOSE >>
                  /\ Trim(lines[n]) = IF entry[2] # SINGLE_LINE THEN entry[2] ELSE entry[1]

\* check_summary, summary.rs:398-424
check_summary(file_path, s, map) ==
    IF ~Has(map, Extension(file_path)) THEN FALSE
    ELSE LET entry == Get(map, Extension(file_path))
             multi_line_comment_start == entry[1]
             multi_line_comment_end == entry[2]
             lines == Split(Trim(s), NL)
             n == Len(lines)
         IN  IF n < 4 THEN FALSE
             ELSE IF multi_line_comment_end # SINGLE_LINE
             THEN /\ Trim(lines[1]) = multi_line_comment_start
                  /\ Trim(lines[2]) = << DIRSCRIBE_OPEN >>
                  /\ Trim(lines[n - 1]) = << DIRSCRIBE_CLOSE >>
                  /\ Trim(lines[n]) = multi_line_comment_end
             ELSE /\ Trim(lines[1]) = multi_line_comment_start
                  /\ Trim(lines[2]) = multi_line_comment_start \o << SP, DIRSCRIBE_OPEN >>
                  /\ Trim(lines[n - 1]) = multi_line_comment_start \o << SP, DIRSCRIBE_CLOSE >>
                  /\ Trim(lines[n]) = multi_line_comment_start

-----------------------------------------------------------------------------
(* Providers and response bodies *)

\* Provider::from_str on the lower-cased name
Provider_from_str(s) ==
    CASE s = "deepseek"  -> [tag |-> "Ok", value |-> "Deepseek"]
      [] s = "anthropic" -> [tag |-> "Ok", value |-> "Anthropic"]
      [] s = "ollama"    -> [tag |-> "Ok", value |-> "Ollama"]
      [] OTHER           -> [tag |-> "Err", value |-> "Invalid provider"]

\* A bug to test the claims against: no provider needs a key
UnifiedClient_new_NoKeyCheck(p, api_key_set) == [tag |-> "Ok", value |-> p]

\* UnifiedClient::new: the key-based providers need PROVIDER_API_KEY
UnifiedClient_new(p, api_key_set) ==
    IF p \in {"Deepseek", "Anthropic"} /\ ~api_key_set
    THEN [tag |-> "Err", value |-> "PROVIDER_API_KEY not set"]
    ELSE [tag |-> "Ok", value |-> p]

\* A response body: text that is no JSON of any provider's schema ("none"),
\* or JSON of one provider's schema carrying its list of reply texts
\* (choices[].message.content, content[].text, or the one response string).
Body(schema, items) == [schema |-> schema, items |-> items]
Garbage == Body("none", << >>)

THINK_CLOSE == "</think>"

\* UnifiedClient::parse_response
parse_response(p, body) ==
    CASE p = "Deepseek" ->
            IF body.schema # "deepseek" THEN [tag |-> "Err", content |-> << >>]
            ELSE IF Len(body.items) = 0 THEN [tag |-> "Panic", content |-> << >>]
            ELSE [tag |-> "Ok", content |-> body.items[1]]
      [] p = "Anthropic" ->
            IF body.schema # "anthropic" THEN [tag |-> "Err", content |-> << >>]
            ELSE IF Len(body.items) = 0 THEN [tag |-> "Panic", content |-> << >>]
            ELSE [tag |-> "Ok", content |-> body.items[1]]
      [] OTHER ->
            IF body.schema # "ollama" THEN [tag |-> "Err", content |-> << >>]
            ELSE LET response == body.items[1] IN
                 IF Contains(response, THINK_CLOSE)
                 THEN [tag |-> "Ok", content |-> Trim(Split(response, THINK_CLOSE)[2])]
                 ELSE [tag |-> "Ok", content |-> response]

\* StatusCode::is_success, StatusCode::is_server_error
is_success(status) == 200 <= status /\ status <= 299
is_server_error(status) == 500 <= status /\ status <= 599

-----------------------------------------------------------------------------
(* UnifiedClient::chat: what one iteration of the loop does with the       *)
(* outcome of its request.                                                 *)

\* The anyhow errors chat can end with
ERR_TRANSPORT == << "reqwest::Error" >>
ERR_FORMAT == << "Max retries exceeded. Could not generate valid summary format" >>
ERR_PARSE == << "Failed to parse response after 6 retries" >>
ERR_NON_RETRIABLE == << "API request failed with non-retriable error" >>
ERR_LAST == << "Max retries exceeded. Last error" >>

Return(result) == [act |-> "return", result |-> result]
Ok(v) == [tag |-> "Ok", value |-> v]
Err(e) == [tag |-> "Err", value |-> e]

\* "Retry logic", summary.rs:307-314: bail when the budget is used up, else sleep
RetryLogic(r) ==
    IF r >= MAX_RETRIES THEN Return(Err(ERR_LAST))
    ELSE [act |-> "sleep", result |-> None]

\* A bug to test the claims against: a decode failure ends the call at once
on_success_ParseFatal(p, map, diff, file_path, r, body) ==
    LET parsed == parse_response(p, body) IN
    CASE parsed.tag = "Panic" -> [act |-> "panic", result |-> None]
      [] parsed.tag = "Ok" ->
           IF diff \/ check_summary(file_path, parsed.content, map)
           THEN Return(Ok(parsed.content))
           ELSE IF r >= MAX_RETRIES THEN Return(Err(ERR_FORMAT))
           ELSE RetryLogic(r)
      [] OTHER -> Return(Err(ERR_PARSE))

\* A bug to test the claims against: the reply is validated in diff mode too
on_success_NoDiffBypass(p, map, diff, file_path, r, body) ==
    LET parsed == parse_response(p, body) IN
    CASE parsed.tag = "Panic" -> [act |-> "panic", result |-> None]
      [] parsed.tag = "Ok" ->
           IF check_summary(file_path, parsed.content, map)
           THEN Return(Ok(parsed.content))
           ELSE IF r >= MAX_RETRIES THEN Return(Err(ERR_FORMAT))
           ELSE RetryLogic(r)
      [] OTHER ->
           IF r >= MAX_RETRIES THEN Return(Err(ERR_PARSE))
           ELSE RetryLogic(r)

\* The success branch of chat's loop, summary.rs:279-301 (and the retry
\* logic it falls through to): the body is parsed (indexing an empty
\* choices/content vector panics), then validated unless in diff mode.
on_success(p, map, diff, file_path, r, body) ==
    LET parsed == parse_response(p, body) IN
    CASE parsed.tag = "Panic" -> [act |-> "panic", result |-> None]
      [] parsed.tag = "Ok" ->
           IF diff \/ check_summary(file_path, parsed.content, map)
           THEN Return(Ok(parsed.content))
           ELSE IF r >= MAX_RETRIES THEN Return(Err(ERR_FORMAT))
           ELSE RetryLogic(r)
      [] OTHER ->
           IF r >= MAX_RETRIES THEN Return(Err(ERR_PARSE))
           ELSE RetryLogic(r)

\* A bug to test the claims against: an error status that is retried does
\* not draw on the budget
on_failure_status_NoLimit(r, status) ==
    IF ~is_server_error(status) /\ status # 429
    THEN Return(Err(ERR_NON_RETRIABLE))
    ELSE [act |-> "sleep", result |-> None]

\* A bug to test the claims against: only a client error ends the call
on_failure_status_ClientErrorOnly(r, status) ==
    IF 400 <= status /\ status <= 499 /\ status # 429
    THEN Return(Err(ERR_NON_RETRIABLE))
    ELSE RetryLogic(r)

\* A bug to test the claims against: every error status is retried
on_failure_status_RetryAll(r, status) == RetryLogic(r)

\* The other branch, summary.rs:302-310: a status that is neither a server
\* error nor 429 ends the call, the others go to the retry logic.
on_failure_status(r, status) ==
    IF ~is_server_error(status) /\ status # 429
    THEN Return(Err(ERR_NON_RETRIABLE))
    ELSE RetryLogic(r)

\* One pass through the body of chat's loop, summary.rs:268-314, for the
\* outcome o of the request: o.type is "send_error" (send().await? failed),
\* "body_error" (text().await? failed) or "response" (status and body read).
chat(p, map, diff, file_path, r, o) ==
    IF o.type # "response" THEN Return(Err(ERR_TRANSPORT))
    ELSE IF is_success(o.status)
    THEN on_success(p, map, diff, file_path, r, o.body)
    ELSE on_failure_status(r, o.status)

\* The spawned future, summary.rs:376-383: the task's value from chat's result
task_result(file_path, result) ==
    IF result.tag = "Ok" THEN Ok(result.value)
    ELSE Err(<< "Error processing file " >> \o file_path \o << ": " >> \o result.value)

\* A bug to test the claims against: a failure is recorded as a comment
result_entry_AsComment(out) ==
    IF out.tag = "Ok" THEN out.value
    ELSE << "//", " ", "Error: " >> \o out.value \o << "\n", "//" >>

\* The fan-in loop's entry for a task's value, summary.rs:390-393
result_entry(out) ==
    IF out.tag = "Ok" THEN out.value
    ELSE << "Error: " >> \o out.value

-----------------------------------------------------------------------------
(* Inputs *)

\* File paths handed to get_summaries (file names, as characters)
FilePool == << << "a", ".", "py" >>,
               << "M" >>,
               << "c", ".", "txt" >>,
               << "d", ".", "yaml" >> >>

File(i) == FilePool[((i - 1) % Len(FilePool)) + 1]

\* Reply texts a provider may produce
PyBlock == << "'''", NL, DIRSCRIBE_OPEN, NL, "s", NL, DIRSCRIBE_CLOSE, NL, "'''" >>
PyPadded == << SP, "'''", SP, NL, DIRSCRIBE_OPEN, NL, "s", NL, SP, DIRSCRIBE_CLOSE, NL, "'''", NL >>
Prose == << "s", SP, "s" >>
HashBlock == << "#", NL, "#", SP, DIRSCRIBE_OPEN, NL, "#", SP, "s", NL,
                "#", SP, DIRSCRIBE_CLOSE, NL, "#" >>
ThinkPy == << "s", THINK_CLOSE, NL >> \o PyBlock

\* A reply with reasoning whose summary names the reasoning tag itself
ThinkTwice == << "s", THINK_CLOSE, "'''", NL, "[DIRSCRIBE]", NL, "s", THINK_CLOSE, NL,
                "[/DIRSCRIBE]", NL, "'''" >>

\* The texts of the full run, and the larger set a single chat call is tried on
Texts == {PyPadded, Prose}
ChatTexts == {PyBlock, PyPadded, Prose, HashBlock, ThinkPy, ThinkTwice}

Schemas == {"deepseek", "anthropic", "ollama"}

BodiesOf(texts) ==
    {Garbage}
    \cup {Body(s, << >>) : s \in {"deepseek", "anthropic"}}
    \cup {Body(s, << t >>) : s \in Schemas, t \in texts}

SuccessStatuses == {200, 201}
ErrorStatuses == {100, 302, 400, 401, 404, 429, 500, 503}
Statuses == SuccessStatuses \cup ErrorStatuses

\* The outcomes of one request: a transport failure while sending or while
\* reading the body, an error status (its body is only quoted in the error
\* message), or a success status with a body.
OutcomesOf(texts) ==
    {[type |-> ty, status |-> 0, body |-> Garbage] : ty \in {"send_error", "body_error"}}
    \cup {[type |-> "response", status |-> st, body |-> Garbage] : st \in ErrorStatuses}
    \cup {[type |-> "response", status |-> st, body |-> b] :
             st \in SuccessStatuses, b \in BodiesOf(texts)}

Outcomes == OutcomesOf(Texts)
ChatOutcomes == OutcomesOf(ChatTexts)

\* str::to_lowercase on the provider names of the model
to_lowercase(s) ==
    CASE s = "DeepSeek"  -> "deepseek"
      [] s = "Anthropic" -> "anthropic"
      [] OTHER           -> s

\* str::parse::<usize> on the DIRSCRIBE_CONCURRENT_REQUESTS values of the model
parse_usize(s) ==
    CASE s = "0" -> Ok(0)
      [] s = "1" -> Ok(1)
      [] s = "2" -> Ok(2)
      [] OTHER   -> Err("ParseIntError")

\* The environment: DIRSCRIBE_PROVIDER, PROVIDER_API_KEY (set or not) and
\* DIRSCRIBE_CONCURRENT_REQUESTS
EnvOf(p, k, c) == [provider |-> p, api_key |-> k, concurrent |-> c]

Envs == { EnvOf(None, FALSE, None),
          EnvOf("ollama", TRUE, "1"),
          EnvOf("DeepSeek", TRUE, "2"),
          EnvOf("Anthropic", TRUE, "many"),
          EnvOf(None, TRUE, "1"),
          EnvOf("ollama", FALSE, "0"),
          EnvOf("DeepSeek", FALSE, "1"),
          EnvOf("Anthropic", FALSE, None),
          EnvOf("bogus", TRUE, "2") }

Tasks == 1..NumFiles

-----------------------------------------------------------------------------
(* get_summaries and its tasks *)

TypeOK ==
    /\ env.api_key \in BOOLEAN
    /\ diff_only \in BOOLEAN
    /\ main_pc \in {"start", "spawning", "joining", "returned"}
    /\ permits \in Nat
    /\ handles \in 0..Len(valid_files)
    /\ \A t \in Tasks :
          pc[t] \in {"none", "spawned", "awaiting", "sleeping", "finished", "panicked"}

\* Nothing observed yet: no request sent, no sleep, no outcome received
NoObs == [requests |-> 0, sleeps |-> << >>, seen |-> {}, last |-> "none",
          text |-> << >>, reply |-> << >>, n |-> 0, nretry |-> 0]

\* The state when get_summaries is called with one of the file lists
InitFor(envs, file_lists) ==
    /\ env \in envs
    /\ diff_only \in BOOLEAN
    /\ valid_files \in file_lists
    /\ main_pc = "start"
    /\ ret = [tag |-> "None"]
    /\ provider = None
    /\ max_concurrent_requests = 0
    /\ permits = 0
    /\ handles = 0
    /\ results = << >>
    /\ pc = [t \in Tasks |-> "none"]
    /\ retries = [t \in Tasks |-> 0]
    /\ backoff_ms = [t \in Tasks |-> 0]
    /\ holds = [t \in Tasks |-> FALSE]
    /\ output = [t \in Tasks |-> [tag |-> "None"]]
    /\ completed = << >>
    /\ obs = NoObs

\* No check_summary call under test, no write made yet
NoCheck == [file_path |-> << >>, map |-> suffix_map, lines |-> << >>,
            checked |-> FALSE, result |-> FALSE]
NoWrite == [n |-> 0, tag |-> "none", file |-> 0, summary |-> << >>, ts |-> << >>,
            before |-> << >>, processed |-> << >>,
            prev |-> [tag |-> "none", summary |-> << >>, ts |-> << >>],
            allok |-> TRUE]

\* process_directory has not returned
NoOutput == [tag |-> "None"]

\* No walk is under way
NoWalk == [tag |-> "none"]

\* No git argument is under consideration
NoGit == [pc |-> "none"]

\* get_summaries called on its own: nothing is applied, no file is touched
Idle ==
    /\ chk = NoCheck
    /\ apply = FALSE
    /\ fs = [t \in Tasks |-> << >>]
    /\ applied = 0
    /\ wobs = NoWrite
    /\ emitted = NoOutput
    /\ walk = NoWalk
    /\ git = NoGit

Init == InitFor(Envs, {[i \in 1..n |-> File(i)] : n \in 0..NumFiles}) /\ Idle

\* summary.rs:327-329: the provider named by DIRSCRIBE_PROVIDER, Ollama when unset
provider_from_env(e) ==
    IF e.provider = None THEN Ok("Ollama")
    ELSE Provider_from_str(to_lowercase(e.provider))

\* summary.rs:332: DIRSCRIBE_CONCURRENT_REQUESTS, the default when unset or unparsable
concurrent_from_env(e) ==
    IF e.concurrent = None THEN DEFAULT_CONCURRENT_REQUESTS
    ELSE LET parsed == parse_usize(e.concurrent) IN
         IF parsed.tag = "Ok" THEN parsed.value ELSE DEFAULT_CONCURRENT_REQUESTS

\* get_summaries up to its first loop, summary.rs:326-338 (and 388-395 when
\* there is no file)
Configure ==
    /\ main_pc = "start"
    /\ LET pr == provider_from_env(env)
           client == UnifiedClient_new(pr.value, env.api_key)
       IN  IF pr.tag = "Err"
           THEN /\ main_pc' = "returned"
                /\ ret' = Err(pr.value)
                /\ UNCHANGED << provider, max_concurrent_requests, permits >>
           ELSE IF client.tag = "Err"
           THEN /\ main_pc' = "returned"
                /\ ret' = Err(client.value)
                /\ UNCHANGED << provider, max_concurrent_requests, permits >>
           ELSE /\ provider' = client.value
                /\ max_concurrent_requests' = concurrent_from_env(env)
                /\ permits' = concurrent_from_env(env)
                /\ IF Len(valid_files) = 0
                   THEN main_pc' = "returned" /\ ret' = Ok(<< >>)
                   ELSE main_pc' = "spawning" /\ UNCHANGED ret
    /\ UNCHANGED << env, diff_only, valid_files, handles, results, pc, retries,
                    backoff_ms, holds, output, completed >>

\* A bug to test the claims against: the task is spawned without a permit
Spawn_NoAcquire ==
    /\ main_pc = "spawning"
    /\ LET t == handles + 1 IN
         /\ holds' = [holds EXCEPT ![t] = TRUE]
         /\ pc' = [pc EXCEPT ![t] = "spawned"]
         /\ handles' = t
         /\ main_pc' = IF t = Len(valid_files) THEN "joining" ELSE "spawning"
    /\ UNCHANGED << env, diff_only, valid_files, ret, provider, permits,
                    max_concurrent_requests, results, retries, backoff_ms,
                    output, completed >>

\* One iteration of the fan-out loop, summary.rs:340-386: acquire_owned waits
\* for a permit, then the task is spawned owning it and its handle is pushed.
Spawn ==
    /\ main_pc = "spawning"
    /\ permits > 0
    /\ LET t == handles + 1 IN
         /\ permits' = permits - 1
         /\ holds' = [holds EXCEPT ![t] = TRUE]
         /\ pc' = [pc EXCEPT ![t] = "spawned"]
         /\ handles' = t
         /\ main_pc' = IF t = Len(valid_files) THEN "joining" ELSE "spawning"
    /\ UNCHANGED << env, diff_only, valid_files, ret, provider,
                    max_concurrent_requests, results, retries, backoff_ms,
                    output, completed >>

\* The task's first poll, summary.rs:377 and 261-273: chat initialises its
\* counters and sends the first request.
Start(t) ==
    /\ pc[t] = "spawned"
    /\ retries' = [retries EXCEPT ![t] = 0]
    /\ backoff_ms' = [backoff_ms EXCEPT ![t] = INITIAL_BACKOFF_MS]
    /\ pc' = [pc EXCEPT ![t] = "awaiting"]
    /\ UNCHANGED << env, diff_only, valid_files, main_pc, ret, provider,
                    max_concurrent_requests, permits, handles, results,
                    holds, output, completed >>

\* A bug to test the claims against: the permit is given back when the task
\* starts a backoff sleep
Receive_ReleaseOnSleep(t, o) ==
    /\ pc[t] = "awaiting"
    /\ LET step == chat(provider, suffix_map, diff_only, valid_files[t], retries[t], o) IN
         CASE step.act = "sleep" ->
                /\ pc' = [pc EXCEPT ![t] = "sleeping"]
                /\ holds' = [holds EXCEPT ![t] = FALSE]
                /\ permits' = permits + 1
                /\ UNCHANGED << output, retries, backoff_ms, completed >>
           [] step.act = "panic" ->
                /\ pc' = [pc EXCEPT ![t] = "panicked"]
                /\ holds' = [holds EXCEPT ![t] = FALSE]
                /\ permits' = IF holds[t] THEN permits + 1 ELSE permits
                /\ retries' = [retries EXCEPT ![t] = 0]
                /\ backoff_ms' = [backoff_ms EXCEPT ![t] = 0]
                /\ completed' = Append(completed, t)
                /\ UNCHANGED output
           [] OTHER ->
                /\ pc' = [pc EXCEPT ![t] = "finished"]
                /\ holds' = [holds EXCEPT ![t] = FALSE]
                /\ permits' = IF holds[t] THEN permits + 1 ELSE permits
                /\ retries' = [retries EXCEPT ![t] = 0]
                /\ backoff_ms' = [backoff_ms EXCEPT ![t] = 0]
                /\ output' = [output EXCEPT ![t] = task_result(valid_files[t], step.result)]
                /\ completed' = Append(completed, t)
    /\ UNCHANGED << env, diff_only, valid_files, main_pc, ret, provider,
                    max_concurrent_requests, handles, results >>

\* The request's outcome arrives, summary.rs:273-312 and 378-382: chat returns
\* (the task drops its permit and resolves), panics (unwinding drops the
\* permit), or starts the backoff sleep.  chat's locals end with the call.
Receive(t, o) ==
    /\ pc[t] = "awaiting"
    /\ LET step == chat(provider, suffix_map, diff_only, valid_files[t], retries[t], o) IN
         CASE step.act = "sleep" ->
                /\ pc' = [pc EXCEPT ![t] = "sleeping"]
                /\ UNCHANGED << holds, permits, output, retries, backoff_ms, completed >>
           [] step.act = "panic" ->
                /\ pc' = [pc EXCEPT ![t] = "panicked"]
                /\ holds' = [holds EXCEPT ![t] = FALSE]
                /\ permits' = permits + 1
                /\ retries' = [retries EXCEPT ![t] = 0]
                /\ backoff_ms' = [backoff_ms EXCEPT ![t] = 0]
                /\ completed' = Append(completed, t)
                /\ UNCHANGED output
           [] OTHER ->
                /\ pc' = [pc EXCEPT ![t] = "finished"]
                /\ holds' = [holds EXCEPT ![t] = FALSE]
                /\ permits' = permits + 1
                /\ retries' = [retries EXCEPT ![t] = 0]
                /\ backoff_ms' = [backoff_ms EXCEPT ![t] = 0]
                /\ output' = [output EXCEPT ![t] = task_result(valid_files[t], step.result)]
                /\ completed' = Append(completed, t)
    /\ UNCHANGED << env, diff_only, valid_files, main_pc, ret, provider,
                    max_concurrent_requests, handles, results >>

\* A bug to test the claims against: retries is not advanced
Wake_NoCount(t) ==
    /\ pc[t] = "sleeping"
    /\ backoff_ms' = [backoff_ms EXCEPT ![t] = @ * 2]
    /\ pc' = [pc EXCEPT ![t] = "awaiting"]
    /\ UNCHANGED << env, diff_only, valid_files, main_pc, ret, provider,
                    max_concurrent_requests, permits, handles, results,
                    holds, output, completed, retries >>

\* A bug to test the claims against: the backoff grows linearly
Wake_Linear(t) ==
    /\ pc[t] = "sleeping"
    /\ retries' = [retries EXCEPT ![t] = @ + 1]
    /\ backoff_ms' = [backoff_ms EXCEPT ![t] = @ + INITIAL_BACKOFF_MS]
    /\ pc' = [pc EXCEPT ![t] = "awaiting"]
    /\ UNCHANGED << env, diff_only, valid_files, main_pc, ret, provider,
                    max_concurrent_requests, permits, handles, results,
                    holds, output, completed >>

\* The backoff sleep ends, summary.rs:312-314 and 268-273: the counters are
\* advanced and the loop sends the next request.
Wake(t) ==
    /\ pc[t] = "sleeping"
    /\ retries' = [retries EXCEPT ![t] = @ + 1]
    /\ backoff_ms' = [backoff_ms EXCEPT ![t] = @ * 2]
    /\ pc' = [pc EXCEPT ![t] = "awaiting"]
    /\ UNCHANGED << env, diff_only, valid_files, main_pc, ret, provider,
                    max_concurrent_requests, permits, handles, results,
                    holds, output, completed >>

\* A bug to test the claims against: results are pushed as tasks finish
Join_AnyFinished ==
    /\ main_pc = "joining"
    /\ \E j \in 1..Len(valid_files) :
         /\ pc[j] \in {"finished", "panicked"}
         /\ IF pc[j] = "panicked"
            THEN /\ main_pc' = "returned"
                 /\ ret' = Err("JoinError")
                 /\ UNCHANGED results
            ELSE /\ results' = Append(results, result_entry(output[j]))
                 /\ IF Len(results') = Len(valid_files)
                    THEN main_pc' = "returned" /\ ret' = Ok(results')
                    ELSE UNCHANGED << main_pc, ret >>
    /\ UNCHANGED << env, diff_only, valid_files, provider,
                    max_concurrent_requests, permits, handles, pc, retries,
                    backoff_ms, holds, output, completed >>

\* One iteration of the fan-in loop, summary.rs:388-395: the next handle in
\* input order resolves; a panicked task makes handle.await? return the
\* JoinError; after the last handle the results are returned.
Join ==
    /\ main_pc = "joining"
    /\ LET j == Len(results) + 1 IN
         /\ pc[j] \in {"finished", "panicked"}
         /\ IF pc[j] = "panicked"
            THEN /\ main_pc' = "returned"
                 /\ ret' = Err("JoinError")
                 /\ UNCHANGED results
            ELSE /\ results' = Append(results, result_entry(output[j]))
                 /\ IF j = Len(valid_files)
                    THEN main_pc' = "returned" /\ ret' = Ok(results')
                    ELSE UNCHANGED << main_pc, ret >>
    /\ UNCHANGED << env, diff_only, valid_files, provider,
                    max_concurrent_requests, permits, handles, pc, retries,
                    backoff_ms, holds, output, completed >>

Next ==
    \/ Configure /\ UNCHANGED << obs, aux >>
    \/ Spawn /\ UNCHANGED << obs, aux >>
    \/ \E t \in Tasks : Start(t) /\ UNCHANGED << obs, aux >>
    \/ \E t \in Tasks, o \in Outcomes : Receive(t, o) /\ UNCHANGED << obs, aux >>
    \/ \E t \in Tasks : Wake(t) /\ UNCHANGED << obs, aux >>
    \/ Join /\ UNCHANGED << obs, aux >>

Spec == Init /\ [][Next]_vars

-----------------------------------------------------------------------------
(* One chat call observed: get_summaries on a single file, with the        *)
(* history of the call of task 1 recorded in obs.                          *)

\* What kind of outcome o is for a call of provider p on file_path
OutcomeClass(p, map, file_path, o) ==
    IF o.type # "response" THEN "transport"
    ELSE IF is_success(o.status)
    THEN LET parsed == parse_response(p, o.body) IN
         CASE parsed.tag = "Err"   -> "undecodable"
           [] parsed.tag = "Panic" -> "empty"
           [] OTHER -> IF check_summary(file_path, parsed.content, map)
                       THEN "valid" ELSE "violating"
    ELSE IF o.status = 429 THEN "429"
    ELSE IF 500 <= o.status /\ o.status <= 599 THEN "5xx"
    ELSE IF 400 <= o.status /\ o.status <= 499 THEN "4xx"
    ELSE "other"

\* The outcomes the specification calls retryable, and the replies it accepts
Retryable(class, diff) ==
    class \in {"429", "5xx", "undecodable"} \/ (~diff /\ class = "violating")
Accepted(class, diff) ==
    class = "valid" \/ (diff /\ class = "violating")

\* The text carried by a decodable reply
ReplyText(p, o) ==
    IF o.type = "response" /\ is_success(o.status)
    THEN LET parsed == parse_response(p, o.body) IN
         IF parsed.tag = "Ok" THEN parsed.content ELSE << >>
    ELSE << >>

\* The string a decodable reply carries, before the provider's projection
RawReply(p, o) ==
    IF o.type = "response" /\ is_success(o.status)
    THEN IF parse_response(p, o.body).tag = "Ok" THEN o.body.items[1] ELSE << >>
    ELSE << >>

ObserveSend == obs' = [obs EXCEPT !.requests = @ + 1]

ObserveOutcome(o) ==
    LET class == OutcomeClass(provider, suffix_map, valid_files[1], o) IN
    obs' = [obs EXCEPT !.seen = @ \cup {class},
                       !.last = class,
                       !.text = ReplyText(provider, o),
                       !.reply = RawReply(provider, o),
                       !.nretry = IF Retryable(class, diff_only) THEN @ + 1 ELSE @,
                       !.n = @ + 1,
                       !.sleeps = IF pc'[1] = "sleeping"
                                  THEN Append(@, backoff_ms[1]) ELSE @]

\* One call per provider, on each file of the pool
ChatEnvs == { EnvOf(None, FALSE, None),
              EnvOf("DeepSeek", TRUE, "2"),
              EnvOf("Anthropic", TRUE, "many") }

InitChat == InitFor(ChatEnvs, {<< FilePool[i] >> : i \in 1..Len(FilePool)}) /\ Idle

NextChat ==
    \/ Configure /\ UNCHANGED << obs, aux >>
    \/ Spawn /\ UNCHANGED << obs, aux >>
    \/ Start(1) /\ ObserveSend /\ UNCHANGED aux
    \/ \E o \in ChatOutcomes : Receive(1, o) /\ ObserveOutcome(o) /\ UNCHANGED aux
    \/ Wake(1) /\ ObserveSend /\ UNCHANGED aux
    \/ Join /\ UNCHANGED << obs, aux >>

SpecChat == InitChat /\ [][NextChat]_vars

-----------------------------------------------------------------------------
(* check_summary on its own: the file and the map of a call are drawn, the *)
(* text is built line by line, and each text is checked.                   *)

\* The longest text tried, in lines
MaxLines == 5

\* [&str]::join
RECURSIVE join(_, _)
join(lines, sep) ==
    IF lines = << >> THEN << >>
    ELSE IF Len(lines) = 1 THEN lines[1]
    ELSE lines[1] \o << sep >> \o join(Tail(lines), sep)

\* A map whose entry is a line-mode contract as check_summary recognises it,
\* summary.rs:407 and 413-419
LineModeMap == ( << "sh" >> :> << << "#" >>, SINGLE_LINE >> )

\* The calls tried: a file, and the map handed to check_summary
CheckCalls ==
    { [file_path |-> << "a", ".", "py" >>, map |-> suffix_map],
      [file_path |-> << "e", ".", "rs" >>, map |-> suffix_map],
      [file_path |-> << "d", ".", "yaml" >>, map |-> suffix_map],
      [file_path |-> << "b", ".", "sh" >>, map |-> LineModeMap] }

\* The entry a call looks up
EntryOf(call) == Get(call.map, Extension(call.file_path))

\* The lines a text is built from: the lines of the contract's template,
\* some of them padded with blanks, a body line and an empty line
LinesOf(call) ==
    LET start == EntryOf(call)[1]
        end == EntryOf(call)[2]
    IN  IF end \in {SINGLE_LINE, << NL >>}
        THEN { start, start \o << SP, DIRSCRIBE_OPEN >>,
               start \o << SP, DIRSCRIBE_CLOSE >>,
               start \o << SP, DIRSCRIBE_CLOSE, SP >>,
               start \o << SP, "s" >>, << "s" >>, << >> }
        ELSE { start, end, << DIRSCRIBE_OPEN >>, << SP, DIRSCRIBE_OPEN, SP >>,
               << DIRSCRIBE_CLOSE >>, << "s" >>, << >> }

InitCheck ==
    /\ InitFor({EnvOf(None, FALSE, None)}, {<< >>})
    /\ diff_only = FALSE
    /\ chk \in {[file_path |-> c.file_path, map |-> c.map, lines |-> << >>,
                 checked |-> FALSE, result |-> FALSE] : c \in CheckCalls}
    /\ apply = FALSE
    /\ fs = [t \in Tasks |-> << >>]
    /\ applied = 0
    /\ wobs = NoWrite
    /\ emitted = NoOutput
    /\ walk = NoWalk
    /\ git = NoGit

\* One more line is added to the text, and the text is checked
Check(line) ==
    /\ Len(chk.lines) < MaxLines
    /\ LET lines == Append(chk.lines, line) IN
       chk' = [chk EXCEPT !.lines = lines,
                          !.checked = TRUE,
                          !.result = check_summary(chk.file_path, join(lines, NL), chk.map)]
    /\ UNCHANGED << env, diff_only, valid_files, main_pc, ret, provider,
                    max_concurrent_requests, permits, handles, results,
                    pc, retries, backoff_ms, holds, output, completed, obs,
                    apply, fs, applied, wobs, emitted, walk, git >>

NextCheck == \E line \in LinesOf(chk) : Check(line)

SpecCheck == InitCheck /\ [][NextCheck]_vars

-----------------------------------------------------------------------------
(* Writing a summary into a file, file_processing.rs:226-324 *)

\* str::lines: the pieces between newlines, without a final empty piece, each
\* without a trailing carriage return
CR == "\r"
StripCR(l) == IF l # << >> /\ l[Len(l)] = CR THEN SubSeq(l, 1, Len(l) - 1) ELSE l
str_lines(s) ==
    IF s = << >> THEN << >>
    ELSE LET parts == Split(s, NL)
             kept == IF parts[Len(parts)] = << >>
                     THEN SubSeq(parts, 1, Len(parts) - 1) ELSE parts
         IN  [i \in 1..Len(kept) |-> StripCR(kept[i])]

\* str::starts_with, for a pattern that is one token
starts_with(l, pat) == l # << >> /\ Head(l) = pat

\* check_prefix, file_processing.rs:226-232
check_prefix(s) ==
    LET lines == Split(s, NL)
        first == TrimStart(lines[1])
        is_hash == starts_with(first, "#")
    IN  \A i \in 1..Len(lines) :
            starts_with(TrimStart(lines[i]), IF is_hash THEN "#" ELSE "//")

\* The filter closure of filter_dirscribe_sections applied from line i on,
\* file_processing.rs:275-297
RECURSIVE filter_from(_, _, _, _)
filter_from(lines, i, in_dirscribe, exclude) ==
    IF i > Len(lines) THEN << >>
    ELSE IF i < Len(lines) /\ i < 3 /\ Contains(lines[i + 1], DIRSCRIBE_OPEN)
    THEN (IF exclude THEN << >> ELSE << lines[i] >>)
         \o filter_from(lines, i + 1, TRUE, exclude)
    ELSE IF i > 1 /\ in_dirscribe /\ Contains(lines[i - 1], DIRSCRIBE_CLOSE)
    THEN (IF exclude THEN << >> ELSE << lines[i] >>)
         \o filter_from(lines, i + 1, FALSE, exclude)
    ELSE (IF (IF exclude THEN ~in_dirscribe ELSE in_dirscribe)
          THEN << lines[i] >> ELSE << >>)
         \o filter_from(lines, i + 1, in_dirscribe, exclude)

\* filter_dirscribe_sections, file_processing.rs:250-301
filter_dirscribe_sections(content, exclude) ==
    LET lines == str_lines(content) IN
    IF lines = << >> THEN << >>
    ELSE join(filter_from(lines, 1, FALSE, exclude), NL)

\* The values Local::now().to_rfc3339() takes, each a line of one token
Timestamps == { << "T1" >>, << "T2" >> }

\* insert_timestamp, file_processing.rs:304-309, with the clock's reading as
\* an argument; lines.len() - 2 underflows on fewer than two lines and the
\* insert panics
insert_timestamp(input, timestamp) ==
    LET lines == str_lines(input)
        n == Len(lines)
    IN  IF n < 2 THEN [tag |-> "Panic", value |-> << >>]
        ELSE [tag |-> "Ok",
              value |-> join(SubSeq(lines, 1, n - 2) \o << timestamp >>
                               \o SubSeq(lines, n - 1, n), NL)]

\* A bug to test the claims against: the summary is written whatever it is
write_summary_to_file_Unchecked(file_path, summary, map, content, timestamp) ==
    LET processed_content == filter_dirscribe_sections(content, TRUE)
        summary_ts == insert_timestamp(summary, timestamp)
    IN  IF summary_ts.tag = "Panic"
        THEN [tag |-> "Panic", content |-> content, processed |-> processed_content]
        ELSE [tag |-> "Ok",
              content |-> summary_ts.value \o << NL >> \o processed_content,
              processed |-> processed_content]

\* write_summary_to_file, file_processing.rs:311-324, on a file whose content
\* is content: the result, and the content of the file afterwards
write_summary_to_file(file_path, summary, map, content, timestamp) ==
    IF check_summary(file_path, summary, map) \/ check_prefix(summary)
    THEN LET processed_content == filter_dirscribe_sections(content, TRUE)
             summary_ts == insert_timestamp(summary, timestamp)
         IN  IF summary_ts.tag = "Panic"
             THEN [tag |-> "Panic", content |-> content, processed |-> processed_content]
             ELSE [tag |-> "Ok",
                   content |-> summary_ts.value \o << NL >> \o processed_content,
                   processed |-> processed_content]
    ELSE [tag |-> "Err", content |-> content, processed |-> << >>]

\* One call of write_summary_to_file on file i of valid_files, with the map
\* process_directory hands it (file_processing.rs:166, 185)
WriteFile(i, summary, timestamp) ==
    LET w == write_summary_to_file(valid_files[i], summary, suffix_map, fs[i], timestamp) IN
    /\ fs' = [fs EXCEPT ![i] = w.content]
    /\ wobs' = [n |-> wobs.n + 1, tag |-> w.tag, file |-> i,
                summary |-> summary, ts |-> timestamp,
                before |-> fs[i], processed |-> w.processed,
                prev |-> [tag |-> wobs.tag, summary |-> wobs.summary, ts |-> wobs.ts],
                allok |-> wobs.allok /\ w.tag = "Ok"]

-----------------------------------------------------------------------------
(* write_summary_to_file on its own: a file and its content are drawn, and *)
(* summaries are written into it one after the other.                      *)

\* The most writes made into the file
MaxWrites == 2

\* Summaries: replies check_summary accepts for a.py (PyBlock, PyPadded and a
\* block after two empty lines), comments only check_prefix accepts (a
\* line-mode block, two comment lines, one comment line), and texts neither
\* accepts (prose, the error string of a failed task)
PyLate == << NL, NL >> \o PyBlock
TwoComments == << "#", SP, "a", NL, "#", SP, "b" >>
OneComment == << "#", SP, "s" >>
ErrorText == << "Error: ", "Error processing file ", "a", ".", "py", ": ", "e" >>
WriteSummaries ==
    { PyBlock, PyPadded, PyLate, HashBlock, TwoComments, OneComment, Prose, ErrorText }

\* File contents: empty, without and with a final newline, ending in an empty
\* line, with carriage returns, with a summary block at the top, with an
\* opening sentinel that is never closed
PlainText == << "x", NL, "y" >>
NewlineEnded == << "x", NL, "y", NL >>
BlankEnded == << "x", NL, NL >>
CrLf == << "x", CR, NL, "y", CR, NL >>
WithBlock == << "'''", NL, DIRSCRIBE_OPEN, NL, "o", NL, DIRSCRIBE_CLOSE, NL, "'''", NL,
                "x", NL >>
Unclosed == << "'''", NL, DIRSCRIBE_OPEN, NL, "o", NL, "x", NL >>
Contents == { << >>, PlainText, NewlineEnded, BlankEnded, CrLf, WithBlock, Unclosed }

\* The files written into: with a block-mode entry, with a line-mode entry,
\* with no entry
WritePaths == { << "a", ".", "py" >>, << "d", ".", "yaml" >>, << "c", ".", "txt" >> }

InitWrite ==
    /\ InitFor({EnvOf(None, FALSE, None)}, {<< p >> : p \in WritePaths})
    /\ diff_only = FALSE
    /\ chk = NoCheck
    /\ apply = TRUE
    /\ \E c \in Contents : fs = [t \in Tasks |-> IF t = 1 THEN c ELSE << >>]
    /\ applied = 0
    /\ wobs = NoWrite
    /\ emitted = NoOutput
    /\ walk = NoWalk
    /\ git = NoGit

\* write_summary_to_file is called with a summary; a panic ends the process
WriteSummary(summary, timestamp) ==
    /\ wobs.n < MaxWrites
    /\ wobs.tag # "Panic"
    /\ WriteFile(1, summary, timestamp)
    /\ UNCHANGED << env, diff_only, valid_files, main_pc, ret, provider,
                    max_concurrent_requests, permits, handles, results,
                    pc, retries, backoff_ms, holds, output, completed, obs,
                    chk, apply, applied, emitted, walk, git >>

NextWrite == \E summary \in WriteSummaries, timestamp \in Timestamps :
                 WriteSummary(summary, timestamp)

SpecWrite == InitWrite /\ [][NextWrite]_vars

-----------------------------------------------------------------------------
(* process_directory summarising and applying, file_processing.rs:166-190: *)
(* get_summaries runs, and once it has returned Ok the summaries are       *)
(* written into the files, in order.                                       *)

\* The runs tried: one request at a time, and the default limit
RunEnvs == { EnvOf("DeepSeek", TRUE, "1"), EnvOf(None, FALSE, None) }

\* The file lists of a run: the first files of the pool, and the two first
\* in the other order
RunFiles == {[i \in 1..n |-> File(i)] : n \in 0..NumFiles} \cup {<< File(2), File(1) >>}

InitRun ==
    /\ InitFor(RunEnvs, RunFiles)
    /\ chk = NoCheck
    /\ apply \in BOOLEAN
    /\ fs = [t \in Tasks |-> NewlineEnded]
    /\ applied = 0
    /\ wobs = NoWrite
    /\ emitted = NoOutput
    /\ walk = NoWalk
    /\ git = NoGit

\* A bug to test the claims against: a file is written as soon as its own
\* task has ended
Apply_Early(timestamp) ==
    /\ apply /\ ~diff_only
    /\ applied < Len(valid_files)
    /\ pc[applied + 1] = "finished"
    /\ wobs.tag # "Panic"
    /\ WriteFile(applied + 1, result_entry(output[applied + 1]), timestamp)
    /\ applied' = applied + 1
    /\ UNCHANGED << env, diff_only, valid_files, main_pc, ret, provider,
                    max_concurrent_requests, permits, handles, results,
                    pc, retries, backoff_ms, holds, output, completed, obs,
                    chk, apply, emitted, walk, git >>

\* A bug to test the claims against: the apply loop is left at the first
\* write that fails
Apply_StopOnError(timestamp) ==
    /\ main_pc = "returned"
    /\ ret.tag = "Ok"
    /\ apply /\ ~diff_only
    /\ applied < Len(valid_files)
    /\ wobs.tag # "Panic"
    /\ WriteFile(applied + 1, ret.value[applied + 1], timestamp)
    /\ applied' = IF wobs'.tag = "Err" THEN Len(valid_files) ELSE applied + 1
    /\ UNCHANGED << env, diff_only, valid_files, main_pc, ret, provider,
                    max_concurrent_requests, permits, handles, results,
                    pc, retries, backoff_ms, holds, output, completed, obs,
                    chk, apply, emitted, walk, git >>

\* One iteration of the apply loop, file_processing.rs:182-190: get_summaries
\* has returned Ok (an Err has left process_directory through `?`), and the
\* next file gets its summary; a failed write is logged and the loop goes on
Apply(timestamp) ==
    /\ main_pc = "returned"
    /\ ret.tag = "Ok"
    /\ apply /\ ~diff_only
    /\ applied < Len(valid_files)
    /\ wobs.tag # "Panic"
    /\ WriteFile(applied + 1, ret.value[applied + 1], timestamp)
    /\ applied' = applied + 1
    /\ UNCHANGED << env, diff_only, valid_files, main_pc, ret, provider,
                    max_concurrent_requests, permits, handles, results,
                    pc, retries, backoff_ms, holds, output, completed, obs,
                    chk, apply, emitted, walk, git >>

\* The end of process_directory, file_processing.rs:168-181 and 192-223: an
\* Err of get_summaries has left through `?`; otherwise, once the apply loop
\* is through, the listed paths and one section per file and summary are
\* returned
Finish ==
    /\ main_pc = "returned"
    /\ emitted = NoOutput
    /\ wobs.tag # "Panic"
    /\ IF ret.tag = "Err"
       THEN emitted' = [tag |-> "Err", paths |-> << >>, sections |-> << >>]
       ELSE /\ (apply /\ ~diff_only) => applied = Len(valid_files)
            /\ emitted' = [tag |-> "Ok", paths |-> valid_files,
                           sections |-> [i \in 1..Len(valid_files) |->
                                            [title |-> "Summary of",
                                             file |-> valid_files[i],
                                             text |-> ret.value[i]]]]
    /\ UNCHANGED << env, diff_only, valid_files, main_pc, ret, provider,
                    max_concurrent_requests, permits, handles, results,
                    pc, retries, backoff_ms, holds, output, completed, obs,
                    chk, apply, fs, applied, wobs, walk, git >>

NextRun ==
    \/ Configure /\ UNCHANGED << obs, aux >>
    \/ Spawn /\ UNCHANGED << obs, aux >>
    \/ \E t \in Tasks : Start(t) /\ UNCHANGED << obs, aux >>
    \/ \E t \in Tasks, o \in Outcomes : Receive(t, o) /\ UNCHANGED << obs, aux >>
    \/ \E t \in Tasks : Wake(t) /\ UNCHANGED << obs, aux >>
    \/ Join /\ UNCHANGED << obs, aux >>
    \/ \E timestamp \in Timestamps : Apply(timestamp)
    \/ Finish

SpecRun == InitRun /\ [][NextRun]_vars

-----------------------------------------------------------------------------
(* The configuration of a run on its own, summary.rs:326-334: every        *)
(* environment of the model, up to the creation of the semaphore.          *)

ConfigEnvs ==
    { EnvOf(p, k, c) : p \in {None, "ollama", "DeepSeek", "Anthropic", "bogus"},
                       k \in BOOLEAN,
                       c \in {None, "0", "1", "2", "many"} }

InitConfig == InitFor(ConfigEnvs, {<< >>, << File(1) >>}) /\ Idle

NextConfig == Configure /\ UNCHANGED << obs, aux >>

SpecConfig == InitConfig /\ [][NextConfig]_vars

-----------------------------------------------------------------------------
(* get_summaries with its scheduling: the runtime polls whatever is ready, *)
(* every request gets an outcome, every sleep ends.                        *)

Fairness ==
    /\ WF_vars(Configure /\ UNCHANGED << obs, aux >>)
    /\ WF_vars(Spawn /\ UNCHANGED << obs, aux >>)
    /\ WF_vars(Join /\ UNCHANGED << obs, aux >>)
    /\ \A t \in Tasks :
          /\ WF_vars(Start(t) /\ UNCHANGED << obs, aux >>)
          /\ WF_vars((\E o \in Outcomes : Receive(t, o)) /\ UNCHANGED << obs, aux >>)
          /\ WF_vars(Wake(t) /\ UNCHANGED << obs, aux >>)

SpecLive == Init /\ [][Next]_vars /\ Fairness

-----------------------------------------------------------------------------
(* process_directory's walk: the files of a directory tree are filtered by *)
(* path and by keyword, then listed and emitted (no summaries, no diff).   *)

\* str::starts_with and str::contains for a pattern of several tokens
str_starts_with(s, pat) == Len(pat) <= Len(s) /\ SubSeq(s, 1, Len(pat)) = pat
str_contains(s, pat) ==
    \E i \in 0..(Len(s) - Len(pat)) : SubSeq(s, i + 1, i + Len(pat)) = pat

\* Path::starts_with: whole components
path_starts_with(path, base) ==
    LET pc_ == Split(path, "/")
        bc  == Split(base, "/")
    IN  Len(bc) <= Len(pc_) /\ SubSeq(pc_, 1, Len(bc)) = bc

\* Path::strip_prefix: Ok with the rest of the path, or Err
strip_prefix(path, base) ==
    IF path = base THEN Ok(<< >>)
    ELSE IF str_starts_with(path, base \o << "/" >>)
    THEN Ok(SubSeq(path, Len(base) + 2, Len(path)))
    ELSE Err("StripPrefixError")

\* The directory processed and what the walker yields for it, in its order:
\* directories and files, a file being readable as UTF-8 text or not
DirPath == << "proj" >>
InDir(rel) == DirPath \o << "/" >> \o rel
Dir(rel) == [path |-> InDir(rel), is_dir |-> TRUE, readable |-> FALSE, contents |-> << >>]
Text(rel, contents) == [path |-> InDir(rel), is_dir |-> FALSE, readable |-> TRUE, contents |-> contents]
Binary(rel) == [path |-> InDir(rel), is_dir |-> FALSE, readable |-> FALSE, contents |-> << >>]

Tree ==
    << Dir(<< "src" >>),
       Text(<< "src", "/", "a", ".", "rs" >>, << "k1", SP, "k2" >>),
       Text(<< "src", "/", "b", ".", "rs" >>, << "k1", NL, "k2" >>),
       Text(<< "src", "s", "/", "c", ".", "rs" >>, << "k3", SP, "k1" >>),
       Text(<< "docs", "/", "d", ".", "md" >>, << "x" >>),
       Text(<< "docs", "/", "e", ".", "txt" >>, << "k1" >>),
       Text(<< "tests", "/", "t", ".", "rs" >>, << "k1" >>),
       Binary(<< "tests", "/", "u", ".", "rs" >>) >>

\* The suffixes argument
Suffixes == { << "rs" >>, << "md" >> }

\* The values of --exclude-paths and --include-paths, of the keyword options
PathLists == { << >>,
               << << "src" >> >>,
               << << "tests" >> >>,
               << << "docs" >>, << "src", "/", "b", ".", "rs" >> >>,
               << << "src", "/", "a", ".", "rs" >>, << "tests" >> >> }
KeywordLists == { << >>,
                  << << "k1" >> >>,
                  << << "k3" >> >>,
                  << << "k1" >>, << "k2" >> >>,
                  << << "k1", SP, "k2" >>, << "k3" >> >> }

\* validate_path_filters, validation.rs:219-277: no include path lies under
\* an exclude path
validate_path_filters(exclude_paths, include_paths) ==
    ~ \E i \in DOMAIN include_paths : \E e \in DOMAIN exclude_paths :
          path_starts_with(include_paths[i], exclude_paths[e])

\* A bug to test the claims against: an or-keyword match is looked for first
\* and includes the file
check_for_keywords_OrFirst(file, or_keywords, and_keywords, exclude_keywords) ==
    IF ~file.readable THEN Err("io::Error")
    ELSE LET has(k) == str_contains(file.contents, k) IN
         IF \E i \in DOMAIN or_keywords : has(or_keywords[i]) THEN Ok(TRUE)
         ELSE IF \E i \in DOMAIN exclude_keywords : has(exclude_keywords[i]) THEN Ok(FALSE)
         ELSE IF or_keywords # << >> THEN Ok(FALSE)
         ELSE IF and_keywords # << >> /\ ~ \A i \in DOMAIN and_keywords : has(and_keywords[i])
         THEN Ok(FALSE)
         ELSE Ok(TRUE)

\* check_for_keywords, file_processing.rs:400-432
check_for_keywords(file, or_keywords, and_keywords, exclude_keywords) ==
    IF ~file.readable THEN Err("io::Error")
    ELSE LET has(k) == str_contains(file.contents, k) IN
         IF \E i \in DOMAIN exclude_keywords : has(exclude_keywords[i]) THEN Ok(FALSE)
         ELSE IF or_keywords # << >> /\ ~ \E i \in DOMAIN or_keywords : has(or_keywords[i])
         THEN Ok(FALSE)
         ELSE IF and_keywords # << >> /\ ~ \A i \in DOMAIN and_keywords : has(and_keywords[i])
         THEN Ok(FALSE)
         ELSE Ok(TRUE)

\* should_include, file_processing.rs:73-86, without the "*" wildcard
should_include(entry) ==
    /\ ~entry.is_dir
    /\ Extension(entry.path) \in Suffixes

\* A bug to test the claims against: only the excluded path itself is skipped
is_excluded_WholePathOnly(relative_path_str, exclude_paths) ==
    \E i \in DOMAIN exclude_paths : relative_path_str = exclude_paths[i]

\* The two path filters, file_processing.rs:94-98 and 101-108
is_excluded(relative_path_str, exclude_paths) ==
    \E i \in DOMAIN exclude_paths : str_starts_with(relative_path_str, exclude_paths[i])

is_included(relative_path_str, include_paths) ==
    \E i \in DOMAIN include_paths : str_starts_with(relative_path_str, include_paths[i])

NoCall == [tag |-> "None", file |-> << >>, contents |-> << >>, value |-> FALSE]

InitWalk ==
    /\ InitFor({EnvOf(None, FALSE, None)}, {<< >>})
    /\ diff_only = FALSE
    /\ chk = NoCheck
    /\ apply = FALSE
    /\ fs = [t \in Tasks |-> << >>]
    /\ applied = 0
    /\ wobs = NoWrite
    /\ emitted = NoOutput
    /\ git = NoGit
    /\ \E ex \in PathLists, inc \in PathLists, ork \in KeywordLists,
          andk \in KeywordLists, exk \in KeywordLists :
          /\ validate_path_filters(ex, inc)
          /\ walk = [tag |-> "walking", pos |-> 0,
                     exclude_paths |-> ex, include_paths |-> inc,
                     or_keywords |-> ork, and_keywords |-> andk,
                     exclude_keywords |-> exk, call |-> NoCall]

\* One iteration of the walker loop, file_processing.rs:59-116; an Err of
\* check_for_keywords leaves process_directory through `?`
Visit ==
    /\ walk.tag = "walking"
    /\ walk.pos < Len(Tree)
    /\ LET entry == Tree[walk.pos + 1]
           relative_path == strip_prefix(entry.path, DirPath)
           skip == /\ walk' = [walk EXCEPT !.pos = @ + 1]
                   /\ UNCHANGED << valid_files, emitted >>
       IN  IF ~should_include(entry) \/ relative_path.tag # "Ok" THEN skip
           ELSE IF is_excluded(relative_path.value, walk.exclude_paths) THEN skip
           ELSE IF /\ walk.include_paths # << >>
                   /\ ~is_included(relative_path.value, walk.include_paths)
           THEN skip
           ELSE LET r == check_for_keywords(entry, walk.or_keywords,
                                            walk.and_keywords, walk.exclude_keywords)
                    call == [tag |-> r.tag, file |-> entry.path,
                             contents |-> entry.contents,
                             value |-> r.tag = "Ok" /\ r.value]
                IN  IF r.tag = "Err"
                    THEN /\ walk' = [walk EXCEPT !.tag = "failed", !.call = call]
                         /\ emitted' = [tag |-> "Err", paths |-> << >>, sections |-> << >>]
                         /\ UNCHANGED valid_files
                    ELSE /\ walk' = [walk EXCEPT !.pos = @ + 1, !.call = call]
                         /\ valid_files' = IF r.value THEN Append(valid_files, entry.path)
                                           ELSE valid_files
                         /\ UNCHANGED emitted
    /\ UNCHANGED << env, diff_only, main_pc, ret, provider,
                    max_concurrent_requests, permits, handles, results,
                    pc, retries, backoff_ms, holds, output, completed, obs,
                    chk, apply, fs, applied, wobs, git >>

\* fs::read_to_string of process_file on a file of the tree
ContentsOf(path) == (CHOOSE k \in DOMAIN Tree : Tree[k].path = path)

\* After the walk, file_processing.rs:126-157 and 199-223: the paths are
\* listed, and one "File Content of" section per file is emitted, in the
\* order of valid_files
EmitContents ==
    /\ walk.tag = "walking"
    /\ walk.pos = Len(Tree)
    /\ walk' = [walk EXCEPT !.tag = "done"]
    /\ emitted' = [tag |-> "Ok", paths |-> valid_files,
                   sections |-> [i \in 1..Len(valid_files) |->
                                    [title |-> "File Content of",
                                     file |-> valid_files[i],
                                     text |-> Tree[ContentsOf(valid_files[i])].contents]]]
    /\ UNCHANGED << env, diff_only, valid_files, main_pc, ret, provider,
                    max_concurrent_requests, permits, handles, results,
                    pc, retries, backoff_ms, holds, output, completed, obs,
                    chk, apply, fs, applied, wobs, git >>

NextWalk ==
    \/ Visit
    \/ EmitContents

SpecWalk == InitWalk /\ [][NextWalk]_vars

\* The structure get_summaries asks for in its prompt, summary.rs:353-367:
\* the block template, the line template, or the generic request when the
\* extension has no entry (outside diff mode)
prompt_structure(file_path, map) ==
    IF Has(map, Extension(file_path))
    THEN IF Get(map, Extension(file_path))[2] # SINGLE_LINE THEN "block" ELSE "line"
    ELSE "generic"

-----------------------------------------------------------------------------
(* The git arguments: validate_git_args, then the two places that take the *)
(* commit ids in diff mode, get_diff_list and process_file.                *)

\* The values of --start-commit-id and --end-commit-id: not given, the id of
\* a commit (c1 is an ancestor of c2), the id of an object that is no commit,
\* an id that names nothing
CommitIds == {None, "c1", "c2", "blob", "unknown"}

\* validate_commit, validation.rs:183-195
validate_commit(commit_id, arg_name) ==
    IF commit_id = "unknown" THEN Err(<< "Invalid ", arg_name >>)
    ELSE IF commit_id = "blob" THEN Err(<< arg_name, " is not a valid commit" >>)
    ELSE Ok(commit_id)

\* Repository::graph_descendant_of(commit, ancestor) on the commits of the model
graph_descendant_of(commit, ancestor) == commit = "c2" /\ ancestor = "c1"

\* A bug to test the claims against: diff mode is accepted without a start
\* commit
validate_git_args_StartOptional(diff, start_commit, end_commit, is_repo) ==
    IF start_commit # None /\ ~diff
    THEN Err(<< "--diff-only must be set when using --start-commit-id" >>)
    ELSE IF end_commit # None /\ ~diff
    THEN Err(<< "--diff-only must be set when using --end-commit-id" >>)
    ELSE IF ~diff THEN Ok(None)
    ELSE IF ~is_repo THEN Err(<< "Not a git repository" >>)
    ELSE IF start_commit # None /\ validate_commit(start_commit, "start_commit_id").tag = "Err"
    THEN validate_commit(start_commit, "start_commit_id")
    ELSE IF end_commit # None /\ validate_commit(end_commit, "end_commit_id").tag = "Err"
    THEN validate_commit(end_commit, "end_commit_id")
    ELSE IF /\ start_commit # None /\ end_commit # None
            /\ ~graph_descendant_of(end_commit, start_commit)
    THEN Err(<< "start_commit_id must be an ancestor of end_commit_id" >>)
    ELSE Ok(None)

\* validate_git_args, validation.rs:125-181; is_repo: Repository::open(".")
\* succeeds
validate_git_args(diff, start_commit, end_commit, is_repo) ==
    IF diff /\ start_commit = None
    THEN Err(<< "--start-commit-id must be provided when using --diff-only" >>)
    ELSE IF start_commit # None /\ ~diff
    THEN Err(<< "--diff-only must be set when using --start-commit-id" >>)
    ELSE IF end_commit # None /\ ~diff
    THEN Err(<< "--diff-only must be set when using --end-commit-id" >>)
    ELSE IF end_commit # None /\ start_commit = None
    THEN Err(<< "--start-commit-id must be set when using --end-commit-id" >>)
    ELSE IF ~diff THEN Ok(None)
    ELSE IF ~is_repo THEN Err(<< "Not a git repository" >>)
    ELSE IF validate_commit(start_commit, "start_commit_id").tag = "Err"
    THEN validate_commit(start_commit, "start_commit_id")
    ELSE IF end_commit # None /\ validate_commit(end_commit, "end_commit_id").tag = "Err"
    THEN validate_commit(end_commit, "end_commit_id")
    ELSE IF end_commit # None /\ ~graph_descendant_of(end_commit, start_commit)
    THEN Err(<< "start_commit_id must be an ancestor of end_commit_id" >>)
    ELSE Ok(None)

\* The match on (start_commit_id, end_commit_id) of get_diff_list,
\* git.rs:23-67, and of process_file, file_processing.rs:361-387: which two
\* trees are compared
diff_sides(start_commit_id, end_commit_id) ==
    CASE start_commit_id = None /\ end_commit_id = None -> "HEAD..workdir"
      [] start_commit_id # None /\ end_commit_id = None -> "start..workdir"
      [] start_commit_id # None /\ end_commit_id # None -> "start..end"
      [] OTHER                                          -> "HEAD..end"

InitGit ==
    /\ InitFor({EnvOf(None, FALSE, None)}, {<< File(1) >>})
    /\ chk = NoCheck
    /\ apply = FALSE
    /\ fs = [t \in Tasks |-> << >>]
    /\ applied = 0
    /\ wobs = NoWrite
    /\ emitted = NoOutput
    /\ walk = NoWalk
    /\ \E s \in CommitIds, e \in CommitIds, r \in BOOLEAN :
          git = [pc |-> "args", start_commit_id |-> s, end_commit_id |-> e,
                 is_repo |-> r, result |-> [tag |-> "None"],
                 listed |-> None, processed |-> None]

\* validate_cli_args reaches validate_git_args, validation.rs:44-49; an Err
\* ends the program
Validate ==
    /\ git.pc = "args"
    /\ LET r == validate_git_args(diff_only, git.start_commit_id,
                                  git.end_commit_id, git.is_repo)
       IN  git' = [git EXCEPT !.result = r,
                              !.pc = IF r.tag = "Ok" THEN "validated" ELSE "rejected"]
    /\ UNCHANGED << env, diff_only, valid_files, main_pc, ret, provider,
                    max_concurrent_requests, permits, handles, results,
                    pc, retries, backoff_ms, holds, output, completed, obs,
                    chk, apply, fs, applied, wobs, emitted, walk >>

\* The start of process_directory, file_processing.rs:34-49: in diff mode the
\* repository is opened and get_diff_list is entered with the two ids
ListDiff ==
    /\ git.pc = "validated"
    /\ IF diff_only
       THEN IF git.is_repo
            THEN git' = [git EXCEPT !.pc = "listed",
                           !.listed = diff_sides(git.start_commit_id, git.end_commit_id)]
            ELSE git' = [git EXCEPT !.pc = "failed"]
       ELSE git' = [git EXCEPT !.pc = "listed"]
    /\ UNCHANGED << env, diff_only, valid_files, main_pc, ret, provider,
                    max_concurrent_requests, permits, handles, results,
                    pc, retries, backoff_ms, holds, output, completed, obs,
                    chk, apply, fs, applied, wobs, emitted, walk >>

\* process_file on a file of valid_files, file_processing.rs:139-157 and
\* 348-391: the file is read, or in diff mode its diff is taken
ProcessFile ==
    /\ git.pc = "listed"
    /\ git' = [git EXCEPT !.pc = "processed",
                  !.processed = IF diff_only
                                THEN diff_sides(git.start_commit_id, git.end_commit_id)
                                ELSE "read_to_string"]
    /\ UNCHANGED << env, diff_only, valid_files, main_pc, ret, provider,
                    max_concurrent_requests, permits, handles, results,
                    pc, retries, backoff_ms, holds, output, completed, obs,
                    chk, apply, fs, applied, wobs, emitted, walk >>

NextGit ==
    \/ Validate
    \/ ListDiff
    \/ ProcessFile

SpecGit == InitGit /\ [][NextGit]_vars

-----------------------------------------------------------------------------
(* Properties *)

RECURSIVE Pow2(_)
Pow2(i) == IF i = 0 THEN 1 ELSE 2 * Pow2(i - 1)

\* The observed call (task 1 of SpecChat) has returned Ok / returned an error
ChatOk == pc[1] = "finished" /\ output[1].tag = "Ok"
ChatErr == pc[1] = "finished" /\ output[1].tag = "Err"

\* The tasks that own a permit
Holders == {t \in Tasks : holds[t]}

\* C1: outside diff mode, when every reply of a chat call so far was a 2xx,
\* decodable, contract-violating one, no more than MAX_RETRIES + 1 requests
\* were sent, the call has not succeeded (nor panicked), it is over exactly
\* when the reply to request MAX_RETRIES + 1 has arrived, and it then ended
\* with an error.
C1_ViolatingRepliesExhaustRetries ==
    (~diff_only /\ obs.seen = {"violating"}) =>
        /\ obs.requests <= MAX_RETRIES + 1
        /\ ~ChatOk
        /\ pc[1] # "panicked"
        /\ (pc[1] = "finished" <=> (obs.requests = MAX_RETRIES + 1 /\ obs.n = MAX_RETRIES + 1))
        /\ (pc[1] = "finished" => ChatErr /\ Len(obs.sleeps) = MAX_RETRIES)

C1_Witness ==
    /\ ~diff_only
    /\ Has(suffix_map, Extension(valid_files[1]))
    /\ obs.seen = {"violating"}
    /\ obs.requests = 7
    /\ ChatErr
    /\ main_pc = "returned"

\* C2: the number of tasks that own a permit never exceeds
\* max_concurrent_requests, and every permit is either available or owned.
C2_PermitHoldersBounded ==
    main_pc # "start" =>
        /\ Cardinality(Holders) <= max_concurrent_requests
        /\ permits + Cardinality(Holders) = max_concurrent_requests

C2_Witness ==
    /\ max_concurrent_requests = 1
    /\ Cardinality(Holders) = 1
    /\ main_pc = "spawning"
    /\ handles < Len(valid_files)
    /\ pc[1] = "sleeping"

\* C3: when get_summaries returns a list, it has one entry per input file,
\* and entry i is the content task i's chat returned, or the error string
\* naming file i when it failed, whatever order the tasks terminated in.
C3_ResultsInInputOrder ==
    (main_pc = "returned" /\ ret.tag = "Ok") =>
        /\ Len(ret.value) = Len(valid_files)
        /\ \A i \in 1..Len(valid_files) :
             /\ pc[i] = "finished"
             /\ output[i].tag = "Ok" => ret.value[i] = output[i].value
             /\ output[i].tag = "Err" =>
                  /\ Len(ret.value[i]) > Len(valid_files[i]) + 2
                  /\ SubSeq(ret.value[i], 1, Len(valid_files[i]) + 2)
                       = << "Error: ", "Error processing file " >> \o valid_files[i]

C3_Witness ==
    /\ main_pc = "returned"
    /\ ret.tag = "Ok"
    /\ Len(valid_files) = 2
    /\ completed = << 2, 1 >>
    /\ output[1].tag = "Ok"
    /\ output[2].tag = "Err"
    /\ ret.value[1] # ret.value[2]

\* C4: get_summaries returns an error only for a configuration error (an
\* invalid provider name or a missing API key); nothing a provider sends for
\* one file makes it return Err.
C4_ErrOnlyForConfiguration ==
    (main_pc = "returned" /\ ret.tag = "Err") =>
        ret.value \in {"Invalid provider", "PROVIDER_API_KEY not set"}

\* The backoff sleeps observed so far are 1000 ms, 2000 ms, 4000 ms, ...
SleepsDouble == \A i \in 1..Len(obs.sleeps) : obs.sleeps[i] = 1000 * Pow2(i - 1)

\* C5: when the latest response of a chat call had a 4xx status other than
\* 429, the call has ended with the non-retriable error, no request was sent
\* after it and no sleep followed it: every request got its outcome, and
\* only the outcomes before this one were slept on.
C5_ClientErrorEndsCall ==
    obs.last = "4xx" =>
        /\ ChatErr
        /\ output[1].value[Len(output[1].value)] = ERR_NON_RETRIABLE[1]
        /\ obs.requests = obs.n
        /\ Len(obs.sleeps) = obs.n - 1

C5_Witness ==
    /\ obs.last = "4xx"
    /\ obs.n = 3
    /\ ChatErr
    /\ main_pc = "returned"

\* C6: when a chat call got k <= MAX_RETRIES retryable outcomes and then a
\* reply it accepts, it has returned Ok after exactly k + 1 requests and k
\* sleeps, the i-th sleep (from 0) lasting 1000 * 2^i ms.
C6_SuccessAfterKRetries ==
    (/\ Accepted(obs.last, diff_only)
     /\ obs.n = obs.nretry + 1
     /\ obs.nretry <= MAX_RETRIES) =>
        /\ ChatOk
        /\ obs.requests = obs.nretry + 1
        /\ Len(obs.sleeps) = obs.nretry
        /\ SleepsDouble

C6_Witness ==
    /\ ChatOk
    /\ ~diff_only
    /\ obs.nretry = MAX_RETRIES
    /\ {"429", "5xx", "undecodable", "violating"} \subseteq obs.seen
    /\ obs.sleeps = << 1000, 2000, 4000, 8000, 16000, 32000 >>

\* C7: a transport failure of one of the first MAX_RETRIES requests does not
\* make chat return an error (it is retried).
C7_TransportFailureRetried ==
    (obs.last = "transport" /\ obs.n <= MAX_RETRIES) => ~ChatErr

\* C8: when the latest response of a chat call was a 2xx whose body does not
\* decode, then either it was the reply to one of the first MAX_RETRIES
\* requests and chat is sleeping the current backoff or has sent the next
\* request after it, or it was the reply to request MAX_RETRIES + 1 and chat
\* has failed.
C8_UndecodableRetried ==
    obs.last = "undecodable" =>
        \/ /\ pc[1] = "sleeping"
           /\ obs.n <= MAX_RETRIES
           /\ obs.requests = obs.n
           /\ Len(obs.sleeps) = obs.n
           /\ SleepsDouble
        \/ /\ pc[1] = "awaiting"
           /\ obs.n <= MAX_RETRIES
           /\ obs.requests = obs.n + 1
           /\ Len(obs.sleeps) = obs.n
        \/ /\ ChatErr
           /\ obs.n = MAX_RETRIES + 1
           /\ obs.requests = MAX_RETRIES + 1
           /\ Len(obs.sleeps) = MAX_RETRIES

C8_Witness ==
    /\ obs.last = "undecodable"
    /\ pc[1] = "awaiting"
    /\ obs.seen = {"undecodable"}
    /\ obs.requests = MAX_RETRIES + 1

\* C9: in diff mode, when the latest response was a 2xx that decodes, chat
\* has returned its text as success whatever the text is, and no retry was
\* caused by a reply's shape: each retry so far followed a 429, a 5xx or an
\* undecodable body.
C9_DiffModeSkipsValidation ==
    (diff_only /\ obs.last \in {"valid", "violating"}) =>
        /\ ChatOk
        /\ output[1].value = obs.text
        /\ obs.requests = obs.nretry + 1
        /\ Len(obs.sleeps) = obs.nretry

C9_Witness ==
    /\ diff_only
    /\ obs.last = "violating"
    /\ ~Has(suffix_map, Extension(valid_files[1]))
    /\ ChatOk
    /\ output[1].value = Prose
    /\ obs.requests = 1

\* C10: for a file whose extension has no registry entry (or that has no
\* extension) check_summary is false for every text, so no reply is
\* contract-valid; outside diff mode its chat call never returns Ok, and
\* when all its replies were 2xx decodable ones it ends with an error after
\* MAX_RETRIES + 1 requests.
C10_NoContractNeverAccepted ==
    ~Has(suffix_map, Extension(valid_files[1])) =>
        /\ \A t \in ChatTexts : ~check_summary(valid_files[1], t, suffix_map)
        /\ "valid" \notin obs.seen
        /\ ~diff_only => ~ChatOk
        /\ (~diff_only /\ obs.seen = {"violating"} /\ pc[1] = "finished") =>
              (ChatErr /\ obs.requests = MAX_RETRIES + 1)

C10_Witness ==
    /\ Extension(valid_files[1]) = << >>
    /\ ~diff_only
    /\ obs.seen = {"violating"}
    /\ HashBlock = obs.text
    /\ ChatErr
    /\ obs.requests = MAX_RETRIES + 1

-----------------------------------------------------------------------------
(* Properties of check_summary (SpecCheck) *)

\* A line of blanks only
IsBlank(l) == \A i \in 1..Len(l) : IsWhitespace(l[i])

\* The lines of a text once the blank lines before and after it are gone
RECURSIVE DropBlankHead(_)
DropBlankHead(ls) ==
    IF ls # << >> /\ IsBlank(Head(ls)) THEN DropBlankHead(Tail(ls)) ELSE ls
RECURSIVE DropBlankLast(_)
DropBlankLast(ls) ==
    IF ls # << >> /\ IsBlank(ls[Len(ls)])
    THEN DropBlankLast(SubSeq(ls, 1, Len(ls) - 1)) ELSE ls
TrimmedLines(ls) == DropBlankLast(DropBlankHead(ls))

\* A line without the blanks around it
RECURSIVE Strip(_)
Strip(l) ==
    IF l = << >> THEN l
    ELSE IF IsWhitespace(Head(l)) THEN Strip(Tail(l))
    ELSE IF IsWhitespace(l[Len(l)]) THEN Strip(SubSeq(l, 1, Len(l) - 1))
    ELSE l

\* The four lines a contract fixes: first, second, second-to-last, last
Framed(ls, first, second, secondLast, last) ==
    LET core == TrimmedLines(ls)
        n == Len(core)
    IN  /\ n >= 4
        /\ Strip(core[1]) = first
        /\ Strip(core[2]) = second
        /\ Strip(core[n - 1]) = secondLast
        /\ Strip(core[n]) = last

\* C11: for an extension whose contract is block mode (start, end), the text
\* is accepted if and only if, trimmed, it has at least 4 lines, its line 0
\* is start, its line 1 is [DIRSCRIBE], its second-to-last line is
\* [/DIRSCRIBE] and its last line is end, each line compared after trimming
C11_BlockContractFrames ==
    (chk.checked /\ EntryOf(chk)[2] # SINGLE_LINE)
    => (chk.result <=> Framed(chk.lines, EntryOf(chk)[1], << DIRSCRIBE_OPEN >>,
                              << DIRSCRIBE_CLOSE >>, EntryOf(chk)[2]))

\* The reply ''' / [DIRSCRIBE] / s / [/DIRSCRIBE] / ''' is accepted for a.py
C11_Witness ==
    /\ chk.checked
    /\ chk.file_path = << "a", ".", "py" >>
    /\ chk.lines = << << "'''" >>, << DIRSCRIBE_OPEN >>, << "s" >>,
                      << DIRSCRIBE_CLOSE >>, << "'''" >> >>
    /\ chk.result

\* ls without its last line
Front(ls) == SubSeq(ls, 1, Len(ls) - 1)

TemplateOf(entry) ==
    IF entry[2] = << NL >>
    THEN << entry[1], entry[1] \o << SP, DIRSCRIBE_OPEN >>, entry[1] \o << SP, "s" >>,
            entry[1] \o << SP, DIRSCRIBE_CLOSE >>, entry[1] >>
    ELSE << entry[1], << DIRSCRIBE_OPEN >>, << "s" >>, << DIRSCRIBE_CLOSE >>, entry[2] >>

\* ls is the template t with one of its four sentinel lines changed
OneSentinelChanged(ls, t) ==
    /\ Len(ls) = Len(t)
    /\ \E i \in {1, 2, Len(t) - 1, Len(t)} :
          /\ ls[i] # t[i]
          /\ \A j \in 1..Len(t) : j # i => ls[j] = t[j]

\* C13: for every registered extension, the text that is exactly the template
\* of the extension's contract is accepted, and the same text with one of its
\* sentinel lines changed to a different line is rejected
C13_RegisteredTemplateAccepted ==
    (chk.checked /\ chk.map = suffix_map)
    => /\ chk.lines = TemplateOf(EntryOf(chk)) => chk.result
       /\ OneSentinelChanged(chk.lines, TemplateOf(EntryOf(chk))) => ~chk.result

-----------------------------------------------------------------------------
(* Properties of write_summary_to_file (SpecWrite) *)

\* The file the last write was made into
Written == fs[wobs.file]

\* s with every token a replaced by b
ReplaceToken(s, a, b) == [i \in 1..Len(s) |-> IF s[i] = a THEN b ELSE s[i]]

\* C14: write_summary_to_file is idempotent: when the same summary is written
\* twice in succession, the file after the second write equals the file after
\* the first except for the timestamp line
C14_WriteIsIdempotent ==
    (wobs.n >= 2 /\ wobs.tag = "Ok" /\ wobs.prev.tag = "Ok"
                 /\ wobs.summary = wobs.prev.summary)
    => ReplaceToken(Written, wobs.ts[1], wobs.prev.ts[1]) = wobs.before

\* The lines of a text that carry the opening sentinel
OpeningLines(content) ==
    {i \in 1..Len(str_lines(content)) : Contains(str_lines(content)[i], DIRSCRIBE_OPEN)}

\* C15: after successful writes only, the file holds at most one summary
\* block, and nothing but blank lines stands before its opening delimiter
C15_AtMostOneBlockAtTop ==
    (wobs.n >= 1 /\ wobs.allok)
    => /\ Cardinality(OpeningLines(Written)) <= 1
       /\ \A i \in OpeningLines(Written) :
             \A j \in 1..(i - 2) : IsBlank(str_lines(Written)[j])

Min(S) == CHOOSE x \in S : \A y \in S : x <= y

\* The content without its top-of-file block: the lines from the opening
\* delimiter line (line 1 or 2, the line before the opening sentinel) through
\* the closing delimiter line (the line after the closing sentinel) are gone,
\* every other character is as it was
WithoutTopBlock(content) ==
    LET ls == Split(content, NL)
        n == Len(ls)
        opens == {i \in {1, 2} : i < n /\ Contains(ls[i + 1], DIRSCRIBE_OPEN)}
    IN  IF opens = {} THEN content
        ELSE LET o == Min(opens)
                 closes == {c \in (o + 1)..n : Contains(ls[c], DIRSCRIBE_CLOSE)}
             IN  IF closes = {} THEN content
                 ELSE LET c == Min(closes)
                          last == IF c < n THEN c + 1 ELSE c
                      IN  join(SubSeq(ls, 1, o - 1) \o SubSeq(ls, last + 1, n), NL)

\* C16: stripping removes exactly the top-of-file block, opening delimiter
\* line through closing delimiter line, and returns the rest of the content
\* unchanged, whatever the content
C16_StripRemovesExactlyTheBlock ==
    (wobs.n >= 1 /\ wobs.tag # "Err")
    => wobs.processed = WithoutTopBlock(wobs.before)

\* C17: a summary that satisfies neither check_summary for the file's
\* extension nor the comment-character heuristic gets an error, and the file
\* is left as it was
C17_RejectedSummaryNotWritten ==
    (/\ wobs.n >= 1
     /\ ~check_summary(valid_files[wobs.file], wobs.summary, suffix_map)
     /\ ~check_prefix(wobs.summary))
    => (wobs.tag = "Err" /\ Written = wobs.before)

\* A prose summary is refused on a file that has content
C17_Witness ==
    /\ wobs.n >= 1
    /\ wobs.summary = Prose
    /\ wobs.before = WithBlock
    /\ wobs.tag = "Err"

\* The line of the written file that follows the first timestamp line
AfterTimestamp ==
    LET fl == str_lines(Written)
        k == Min({i \in 1..Len(fl) : fl[i] = wobs.ts})
    IN  fl[k + 1]

\* C18: in the written block the closing delimiter line (the end
\* delimiter in block mode, the final prefix line in line mode) is the line
\* directly after the timestamp
C18_ClosingDelimiterAfterTimestamp ==
    (wobs.n >= 1 /\ wobs.tag = "Ok")
    => /\ check_summary(valid_files[wobs.file], wobs.summary, suffix_map)
            => Strip(AfterTimestamp) = suffix_map[Extension(valid_files[wobs.file])][2]
       /\ wobs.summary = HashBlock => AfterTimestamp = << "#" >>

-----------------------------------------------------------------------------
(* Properties of the permits and of the apply step *)

\* C19: a task holds its permit from before its first request until its chat
\* call has ended: it holds it while it waits to start, while a request is
\* out and during every backoff sleep, it holds none once the call has ended,
\* and every permit is either free or held by one such task
C19_PermitHeldThroughChain ==
    /\ \A t \in Tasks : holds[t] <=> pc[t] \in {"spawned", "awaiting", "sleeping"}
    /\ permits + Cardinality(Holders) = max_concurrent_requests

\* A task sleeps before its second or later attempt, permit in hand, while
\* another task has ended and holds none
C19_Witness ==
    \E t, u \in Tasks :
        /\ pc[t] = "sleeping" /\ retries[t] >= 1 /\ holds[t]
        /\ pc[u] = "finished" /\ ~holds[u]

\* C20: no file is written while a task still runs: whenever a write has been
\* made, get_summaries has returned Ok and every task has ended, and each
\* write is one iteration of the main flow's loop, on the next file in order
C20_WritesAfterAllTasksEnded ==
    wobs.n >= 1
    => /\ main_pc = "returned" /\ ret.tag = "Ok"
       /\ \A t \in 1..Len(valid_files) : pc[t] = "finished" /\ ~holds[t]
       /\ wobs.n = applied /\ wobs.file = applied

\* Two files were summarised and both have been through the apply loop, the
\* first one written
C20_Witness ==
    /\ Len(valid_files) >= 2
    /\ applied = Len(valid_files)
    /\ wobs.n = applied
    /\ fs[1] # NewlineEnded

-----------------------------------------------------------------------------
(* Properties of the configuration and of the fan-out *)

\* C21: task submission does not wait for a permit: whenever get_summaries
\* is in its fan-out loop with a file left, it can create the file's task
C21_SubmissionNeverWaits ==
    main_pc = "spawning" => permits > 0

\* C22: with no concurrency limit configured the number of permits is 1 for
\* the key-based providers (Deepseek, Anthropic) and higher for Ollama
C22_DefaultDependsOnProvider ==
    (main_pc # "start" /\ provider # None /\ env.concurrent = None)
    => /\ provider \in {"Deepseek", "Anthropic"} => max_concurrent_requests = 1
       /\ provider = "Ollama" => max_concurrent_requests > 1

\* The providers an environment names, as the configuration reads them
NamesKeyBased(e) == e.provider \in {"DeepSeek", "deepseek", "Anthropic", "anthropic"}
NamesOllama(e) == e.provider \in {None, "ollama", "Ollama"}

\* C23: with an invalid provider name, or a key-based provider and no API
\* key, get_summaries returns Err and has acquired no permit, spawned no task
\* and sent no request; with Ollama, named or by default, a missing key is
\* no error and the run is configured
C23_ConfigurationErrorAbortsRun ==
    main_pc # "start"
    => /\ (~NamesKeyBased(env) /\ ~NamesOllama(env)) \/ (NamesKeyBased(env) /\ ~env.api_key)
          => /\ main_pc = "returned" /\ ret.tag = "Err"
             /\ handles = 0 /\ permits = 0 /\ max_concurrent_requests = 0
             /\ \A t \in Tasks : pc[t] = "none" /\ ~holds[t]
       /\ NamesOllama(env) => provider = "Ollama"

\* Deepseek is named without a key and two files wait: the run has ended
\* with the error and no task exists
C23_Witness ==
    /\ env = EnvOf("DeepSeek", FALSE, "1")
    /\ Len(valid_files) = 2
    /\ main_pc = "returned" /\ ret.tag = "Err"
    /\ \A t \in Tasks : pc[t] = "none"

\* C24: the batch always completes: get_summaries eventually returns, and
\* unless the configuration was refused every file's task eventually ends
C24_BatchCompletes ==
    /\ <>(main_pc = "returned")
    /\ <>(\/ main_pc = "returned" /\ provider = None
          \/ \A t \in 1..Len(valid_files) : pc[t] \in {"finished", "panicked"})

-----------------------------------------------------------------------------
(* Properties of process_directory (SpecRun) *)

\* C25: in diff mode no summary is written whatever apply is; outside diff
\* mode with apply set, process_directory returns its output only after a
\* write was attempted for every file, failed writes included, and the only
\* error it returns is the one of get_summaries
C25_WriteFailureNotPropagated ==
    /\ diff_only => wobs.n = 0 /\ \A t \in Tasks : fs[t] = NewlineEnded
    /\ (emitted.tag = "Ok" /\ apply /\ ~diff_only)
       => wobs.n = Len(valid_files) /\ applied = Len(valid_files)
    /\ emitted.tag = "Err" => ret.tag = "Err" /\ wobs.n = 0

\* The write into the first file failed, the second file was written all the
\* same, and process_directory has returned its output
C25_Witness ==
    /\ apply /\ ~diff_only
    /\ Len(valid_files) = 2
    /\ fs[1] = NewlineEnded /\ fs[2] # NewlineEnded
    /\ wobs.n = 2 /\ ~wobs.allok /\ wobs.tag = "Ok"
    /\ emitted.tag = "Ok"

-----------------------------------------------------------------------------
(* Properties of parse_response (SpecChat) *)

\* The text after the first occurrence of a token
AfterTag(s, tag) ==
    LET i == CHOOSE k \in 1..Len(s) : s[k] = tag /\ \A j \in 1..(k - 1) : s[j] # tag
    IN SubSeq(s, i + 1, Len(s))

\* What is kept of a reply of the no-auth provider
KeptOf(reply) ==
    IF Contains(reply, THINK_CLOSE) THEN AfterTag(reply, THINK_CLOSE) ELSE reply

\* C26: for Ollama, the content of a decoded reply that contains </think> is
\* the text after that tag, and the content of a reply without the tag is
\* the reply unchanged; in diff mode this content is what chat returns
C26_ThinkPreambleDiscarded ==
    (provider = "Ollama" /\ obs.last \in {"valid", "violating"})
    => /\ obs.text = KeptOf(obs.reply)
       /\ (diff_only /\ ChatOk) => output[1].value = KeptOf(obs.reply)

-----------------------------------------------------------------------------
(* Properties of process_directory's walk (SpecWalk) *)

\* The keywords of a list that a text contains
Matches(contents, keywords) ==
    {i \in DOMAIN keywords : str_contains(contents, keywords[i])}

\* C27: the last file whose content check_for_keywords has read is included
\* (pushed on valid_files) if and only if its content contains no exclude
\* keyword, at least one or-keyword when there are or-keywords, and every
\* and-keyword when there are and-keywords; with an exclude keyword in it the
\* file is left out whatever else matches
C27_KeywordFilter ==
    walk.call.tag = "Ok" =>
        LET c == walk.call.contents
            excluded == Matches(c, walk.exclude_keywords) # {}
            any_or == Matches(c, walk.or_keywords) # {}
            all_and == Matches(c, walk.and_keywords) = DOMAIN walk.and_keywords
            pushed == /\ valid_files # << >>
                      /\ valid_files[Len(valid_files)] = walk.call.file
        IN  /\ walk.call.value <=> /\ ~excluded
                                   /\ walk.or_keywords # << >> => any_or
                                   /\ walk.and_keywords # << >> => all_and
            /\ excluded => ~walk.call.value
            /\ pushed <=> walk.call.value

\* A file with an or-keyword, all the and-keywords and an exclude keyword in
\* it was checked, and left out
C27_Witness ==
    /\ walk.call.tag = "Ok"
    /\ walk.or_keywords # << >> /\ walk.and_keywords # << >>
    /\ Matches(walk.call.contents, walk.or_keywords) # {}
    /\ Matches(walk.call.contents, walk.and_keywords) = DOMAIN walk.and_keywords
    /\ Matches(walk.call.contents, walk.exclude_keywords) # {}
    /\ ~walk.call.value
    /\ \A i \in DOMAIN valid_files : valid_files[i] # walk.call.file

\* A path relative to the processed directory passes the two path options
PathAllowed(path) ==
    LET rel == strip_prefix(path, DirPath).value IN
    /\ ~ \E i \in DOMAIN walk.exclude_paths : str_starts_with(rel, walk.exclude_paths[i])
    /\ walk.include_paths # << >>
       => \E i \in DOMAIN walk.include_paths : str_starts_with(rel, walk.include_paths[i])

\* C28: no file whose relative path starts with an --exclude-paths entry is
\* collected, listed or emitted, with --include-paths only files whose
\* relative path starts with one of its entries are, and the sections come
\* in the order of the listed paths
C28_PathFilters ==
    /\ \A i \in DOMAIN valid_files : PathAllowed(valid_files[i])
    /\ emitted.tag = "Ok"
       => /\ \A i \in DOMAIN emitted.paths : PathAllowed(emitted.paths[i])
          /\ \A i \in DOMAIN emitted.sections : PathAllowed(emitted.sections[i].file)
          /\ Len(emitted.sections) <= Len(emitted.paths)
          /\ \A i \in DOMAIN emitted.sections :
                emitted.sections[i].file = emitted.paths[i]

\* With both options given, two files were emitted and the files under the
\* excluded directory were not
C28_Witness ==
    /\ walk.exclude_paths = << << "tests" >> >>
    /\ walk.include_paths # << >>
    /\ emitted.tag = "Ok"
    /\ Len(emitted.sections) = 2
    /\ emitted.sections[1].file # emitted.sections[2].file

-----------------------------------------------------------------------------
(* Properties of chat's retry budget (SpecChat) *)

\* C29: whatever the outcomes of a chat call are, its retry counter never
\* exceeds MAX_RETRIES, at most MAX_RETRIES + 1 requests are sent, and sleep
\* number n lasts INITIAL_BACKOFF_MS * 2^(n-1) ms; while every outcome was a
\* retryable one (429, 5xx, undecodable or contract-violating, in any mix),
\* each of the first MAX_RETRIES outcomes was followed by one sleep, and the
\* outcome of request MAX_RETRIES + 1 ended the call with an error and no
\* further sleep
C29_SingleRetryBudget ==
    /\ retries[1] <= MAX_RETRIES
    /\ obs.requests <= MAX_RETRIES + 1
    /\ \A n \in 1..Len(obs.sleeps) : obs.sleeps[n] = INITIAL_BACKOFF_MS * Pow2(n - 1)
    /\ (obs.nretry = obs.n /\ pc[1] # "panicked")
       => /\ Len(obs.sleeps) = (IF obs.n <= MAX_RETRIES THEN obs.n ELSE MAX_RETRIES)
          /\ pc[1] \in {"awaiting", "sleeping"}
             => retries[1] = (IF pc[1] = "sleeping" THEN obs.n - 1 ELSE obs.n)
          /\ obs.n = MAX_RETRIES + 1 => ChatErr

\* The four kinds of retryable outcome used up one budget: the call failed on
\* the outcome of request MAX_RETRIES + 1, after MAX_RETRIES sleeps
C29_Witness ==
    /\ ~diff_only
    /\ obs.seen = {"429", "5xx", "undecodable", "violating"}
    /\ obs.n = MAX_RETRIES + 1
    /\ obs.requests = MAX_RETRIES + 1
    /\ Len(obs.sleeps) = MAX_RETRIES
    /\ ChatErr

-----------------------------------------------------------------------------
(* Properties of check_summary's line mode (SpecCheck) *)

-----------------------------------------------------------------------------
(* Properties of the written block and of the apply step *)

\* The file of the last write has a line-mode entry in the registry
LineModeFile ==
    /\ Has(suffix_map, Extension(valid_files[wobs.file]))
    /\ Get(suffix_map, Extension(valid_files[wobs.file]))[2] \in {<< NL >>, SINGLE_LINE}

\* The lines of the block the last write put at the top of the file: those of
\* the summary and the timestamp line
WrittenBlock ==
    SubSeq(str_lines(Written), 1, Len(str_lines(wobs.summary)) + 1)

\* C31: after a successful write into a file whose contract is line mode with
\* prefix p, every line of the block written at the top of the file, the
\* timestamp line included, starts with p
C31_WrittenBlockIsComment ==
    (wobs.n >= 1 /\ wobs.tag = "Ok" /\ LineModeFile)
    => LET p == Get(suffix_map, Extension(valid_files[wobs.file]))[1] IN
       \A i \in 1..Len(WrittenBlock) : str_starts_with(TrimStart(WrittenBlock[i]), p)

\* The task of file i ended with an error, which get_summaries recorded as
\* the file's entry
ErrorEntry(i) == pc[i] = "finished" /\ output[i].tag = "Err"

\* C32: the apply step's write of a recorded error returns an error, and
\* every file whose entry is a recorded error has the content it had before
\* the run, whether its write has been attempted or not
C32_ErrorStringNeverWritten ==
    (main_pc = "returned" /\ ret.tag = "Ok")
    => /\ (wobs.n >= 1 /\ ErrorEntry(wobs.file))
          => (wobs.tag = "Err" /\ wobs.summary = ret.value[wobs.file])
       /\ \A i \in 1..Len(valid_files) :
             ErrorEntry(i) => /\ fs[i] = NewlineEnded
                              /\ SubSeq(ret.value[i], 1, 2)
                                    = << "Error: ", "Error processing file " >>

\* The chat call for a.py failed, the apply step tried to write its recorded
\* error into a.py and went on to the next file
C32_Witness ==
    /\ valid_files = << File(1), File(2) >>
    /\ main_pc = "returned" /\ ret.tag = "Ok"
    /\ ErrorEntry(1)
    /\ applied = 2
    /\ wobs.prev.tag = "Err"
    /\ wobs.prev.summary = ret.value[1]
    /\ fs[1] = NewlineEnded

-----------------------------------------------------------------------------
(* Properties of chat's treatment of statuses (SpecChat) *)

\* The outcomes after which chat may go on: a 429, a 5xx, a 2xx that does not
\* decode or, outside diff mode, a 2xx whose text breaks the contract
LeadsToRetry(class) ==
    class \in {"429", "5xx", "undecodable"} \/ (class = "violating" /\ ~diff_only)

\* C33: when the latest response had a status that is neither 2xx nor 5xx nor
\* 429 (a 1xx or a 3xx as well as a 4xx), the call has ended with the
\* non-retriable error and nothing was sent or slept after it; and whenever
\* chat sleeps a backoff or has a request out after an outcome, that outcome
\* was a 429, a 5xx, or a 2xx with an undecodable or contract-violating body
C33_OnlyRetryableStatusesRetried ==
    /\ obs.last \in {"other", "4xx"}
       => /\ ChatErr
          /\ output[1].value[Len(output[1].value)] = ERR_NON_RETRIABLE[1]
          /\ obs.requests = obs.n
          /\ Len(obs.sleeps) < obs.n
    /\ (obs.n >= 1 /\ pc[1] \in {"sleeping", "awaiting"}) => LeadsToRetry(obs.last)
    /\ Len(obs.sleeps) <= obs.nretry

\* A 1xx or 3xx status arrived as the outcome of the second request, after a
\* retried 429, and ended the call
C33_Witness ==
    /\ obs.last = "other"
    /\ obs.seen = {"429", "other"}
    /\ obs.n = 2
    /\ obs.sleeps = << INITIAL_BACKOFF_MS >>
    /\ ChatErr

-----------------------------------------------------------------------------
(* Properties of the permits at the return of get_summaries *)

\* C34: every permit is either available or owned by a task whose chat call
\* is under way, a task whose call has ended or that has panicked owns none,
\* and whenever get_summaries has returned every permit is available again
C34_PermitsNeverLeaked ==
    /\ main_pc # "start" => permits + Cardinality(Holders) = max_concurrent_requests
    /\ \A t \in Tasks : pc[t] \in {"finished", "panicked"} => ~holds[t]
    /\ main_pc = "returned" => permits = max_concurrent_requests

-----------------------------------------------------------------------------
(* Properties of the registry's line-mode marker (SpecCheck) *)

\* C35: for an extension whose registry entry is a line-prefixed style (its
\* end is the registry's line marker), check_summary accepts exactly the
\* texts framed by the line-mode template of the prefix, the text that is
\* the template itself among them, and the prompt asks for the line template
C35_RegistryLineModeRecognised ==
    (chk.checked /\ chk.map = suffix_map /\ EntryOf(chk)[2] = << NL >>)
    => LET p == EntryOf(chk)[1] IN
       /\ chk.result <=> Framed(chk.lines, p, p \o << SP, DIRSCRIBE_OPEN >>,
                                p \o << SP, DIRSCRIBE_CLOSE >>, p)
       /\ prompt_structure(chk.file_path, chk.map) = "line"

-----------------------------------------------------------------------------
(* Properties of the git arguments (SpecGit) *)

\* The combinations of the three arguments the validation may accept:
\* diff_only exactly when a start commit is given, an end commit only
\* together with both
WellFormedGitArgs ==
    /\ diff_only <=> git.start_commit_id # None
    /\ git.end_commit_id # None => (diff_only /\ git.start_commit_id # None)

\* C36: validate_git_args returns Ok only for such a combination and an error
\* for every other one, and after it get_diff_list and process_file are not
\* entered in diff mode without a start commit: they never compare from HEAD
C36_GitArgsValidated ==
    /\ git.pc # "args" => (git.result.tag = "Ok" => WellFormedGitArgs)
    /\ (git.pc # "args" /\ ~WellFormedGitArgs)
       => (git.pc = "rejected" /\ git.result.tag = "Err")
    /\ git.pc = "rejected" => (git.listed = None /\ git.processed = None)
    /\ git.listed \in {None, "start..workdir", "start..end"}
    /\ git.processed \in {None, "read_to_string", "start..workdir", "start..end"}
    /\ (diff_only /\ git.processed # None) => git.start_commit_id # None

\* In diff mode with a start commit and a later end commit, the arguments
\* were accepted and the file's diff was taken between the two commits
C36_Witness ==
    /\ diff_only
    /\ git.start_commit_id = "c1" /\ git.end_commit_id = "c2"
    /\ git.result.tag = "Ok"
    /\ git.listed = "start..end"
    /\ git.pc = "processed" /\ git.processed = "start..end"

====
